---- MODULE Spec2Model ----
(***************************************************************************)
(* A model of sbepp.hpp: byte ranges over a caller-owned buffer, the       *)
(* endian codec, the cursor and its advancement wrappers, the group        *)
(* iterators and the size-validating visitor.                              *)
(*                                                                         *)
(* Pointers are integers, Null is 0 and the buffer `buf` occupies the      *)
(* addresses Base .. Base + Len(buf) - 1.                                  *)
(***************************************************************************)
EXTENDS Integers, Sequences, FiniteSets, TLC

VARIABLES
    buf,    \* the caller's buffer, a sequence of bytes
    sid,    \* the schema (message type) the buffer is viewed as
    pc,     \* position of the session
    size,   \* size_bytes_checked: the size argument
    res,    \* size_bytes_checked: the result
    cur,    \* cursor::ptr of the session's cursor c
    vw,     \* the message or entry view the accessors are called on
    lastAcc, \* the last access made through c: its kind, policy and outcome
    stack,  \* the levels and cursor ranges an in-order traversal is inside
    it      \* a group iterator: [ptr, index] and what was done with it

vars == <<buf, sid, pc, size, res, cur, vw, lastAcc, stack, it>>

----------------------------------------------------------------------------
(* Bounds of the model *)

Base == 16
MaxNum == 2
MaxData == 2
MaxPad == 1
Written == 7

Null == 0

----------------------------------------------------------------------------
(* Memory and the primitive codec *)

Seq0(n, f(_)) == [i \in 1..n |-> f(i)]

\* F applied to the value of v, with v evaluated once
With(v, F(_)) == CHOOSE r \in {F(x) : x \in {v}} : TRUE

RECURSIVE Pow256(_)
Pow256(k) == IF k = 0 THEN 1 ELSE 256 * Pow256(k - 1)

EndOf(b) == Base + Len(b)

InBuf(b, p, n) == p >= Base /\ p + n <= EndOf(b)

ByteAt(b, p) == b[p - Base + 1]

\* SBEPP_SIZE_CHECK: begin && offset + size <= size_t(end - begin); a negative
\* difference converts to a huge size_t, so the comparison is then true.
SizeCheck(begin, end, offset, n) ==
    /\ begin # Null
    /\ (end >= begin) => (offset + n <= end - begin)

\* get_primitive<T, E>: n bytes at p, least significant first for "little".
RECURSIVE get_primitive(_, _, _, _)
get_primitive(b, E, p, n) ==
    IF n = 0 THEN 0
    ELSE IF E = "little"
         THEN ByteAt(b, p) + 256 * get_primitive(b, E, p + 1, n - 1)
         ELSE ByteAt(b, p) * Pow256(n - 1) + get_primitive(b, E, p + 1, n - 1)

\* the bytes set_primitive<E> writes for value v of n bytes
RECURSIVE PrimitiveBytes(_, _, _)
PrimitiveBytes(E, v, n) ==
    IF n = 0 THEN <<>>
    ELSE IF E = "little"
         THEN <<v % 256>> \o PrimitiveBytes(E, v \div 256, n - 1)
         ELSE PrimitiveBytes(E, v \div 256, n - 1) \o <<v % 256>>

set_primitive(b, E, p, v, n) ==
    [i \in 1..Len(b) |->
        IF i >= p - Base + 1 /\ i < p - Base + 1 + n
        THEN PrimitiveBytes(E, v, n)[i - (p - Base)]
        ELSE b[i]]

----------------------------------------------------------------------------
(* The schemas the views are instantiated with.  A level is a message or a *)
(* group entry: fixed fields at offsets inside its block, then groups,     *)
(* then data.                                                              *)

ByteOrder == "little"

\* sizes of the header composites and of the data length prefix
Wire == [messageHeader |-> 8, dimension |-> 4, length |-> 2, word |-> 2,
         blockLengthOffset |-> 0, numInGroupOffset |-> 2, templateIdOffset |-> 2]

Field(off, n, kind) == [off |-> off, size |-> n, kind |-> kind]

Level(l) ==
    CASE l = "S1" ->
            [message |-> TRUE,
             fields |-> <<Field(1, 1, "value"), Field(2, 2, "value")>>,
             groups |-> <<"S1.fg">>, ndata |-> 1]
      [] l = "S1.fg" ->
            [message |-> FALSE,
             fields |-> <<Field(0, 1, "value"), Field(1, 1, "value")>>,
             groups |-> <<>>, ndata |-> 0]
      [] l = "S2" ->
            [message |-> TRUE,
             fields |-> <<Field(0, 1, "value"), Field(1, 2, "view"),
                          Field(4, 1, "value")>>,
             groups |-> <<"S2.ng", "S2.fg">>, ndata |-> 0]
      [] l = "S2.ng" ->
            [message |-> FALSE,
             fields |-> <<Field(0, 1, "value"), Field(1, 2, "view")>>,
             groups |-> <<"S2.ng.sub">>, ndata |-> 1]
      [] l = "S2.ng.sub" ->
            [message |-> FALSE,
             fields |-> <<Field(0, 1, "value")>>,
             groups |-> <<>>, ndata |-> 0]
      [] l = "S2.fg" ->
            [message |-> FALSE,
             fields |-> <<Field(0, 1, "value"), Field(1, 1, "value")>>,
             groups |-> <<>>, ndata |-> 0]
      [] l = "S3" ->
            [message |-> TRUE,
             fields |-> <<Field(0, 1, "value")>>,
             groups |-> <<>>, ndata |-> 2]
      [] l = "S4" ->
            [message |-> TRUE,
             fields |-> <<Field(0, 2, "value")>>,
             groups |-> <<>>, ndata |-> 0]
      [] l = "S0" ->
            [message |-> TRUE, fields |-> <<>>, groups |-> <<>>, ndata |-> 0]

Schemas == {"S1", "S2", "S3"}

\* messages without groups and data: one field, and no member at all
PlainSchemas == {"S4", "S0"}

TemplateId(s) ==
    CASE s = "S1" -> 1 [] s = "S2" -> 2 [] s = "S3" -> 3 [] s = "S4" -> 4 [] s = "S0" -> 5

\* the block length the schema declares for a level: the end of its last field
SchemaBlockLength(l) ==
    LET fs == Level(l).fields
    IN  IF fs = <<>> THEN 0 ELSE fs[Len(fs)].off + fs[Len(fs)].size

\* a group is nested when its entries hold groups or data
IsNested(g) == Len(Level(g).groups) > 0 \/ Level(g).ndata > 0

HeaderSize(l) == IF Level(l).message THEN Wire.messageHeader ELSE 0

\* the offsets the accessors of field k are generated with: absolute from the
\* view's address, relative from the end of the preceding field
AbsoluteOffset(l, k) == HeaderSize(l) + Level(l).fields[k].off

RelativeOffset(l, k) ==
    LET fs == Level(l).fields
    IN  IF k = 1 THEN fs[1].off ELSE fs[k].off - (fs[k - 1].off + fs[k - 1].size)

----------------------------------------------------------------------------
(* Encoded messages: the buffers the model starts from *)

U16(v) == PrimitiveBytes(ByteOrder, v, Wire.word)

Block(n) == Seq0(n, LAMBDA i : 32 + i)

DataBytes(n) == U16(n) \o Seq0(n, LAMBDA i : 64 + i)

RECURSIVE Concat(_)
Concat(ss) == IF ss = <<>> THEN <<>> ELSE Head(ss) \o Concat(Tail(ss))

\* a level instance: [bl, groups: <<group instance>>, data: <<length>>];
\* a group instance: [bl, entries: <<level instance>>]
RECURSIVE EncLevel(_, _)
EncLevel(l, li) ==
    Block(li.bl)
    \o Concat(Seq0(Len(li.groups), LAMBDA k :
            LET gi == li.groups[k]
            IN  U16(gi.bl) \o U16(Len(gi.entries))
                \o Concat(Seq0(Len(gi.entries), LAMBDA i :
                       EncLevel(Level(l).groups[k], gi.entries[i])))))
    \o Concat(Seq0(Len(li.data), LAMBDA k : DataBytes(li.data[k])))

EncMessage(s, mi) ==
    U16(mi.bl) \o U16(TemplateId(s)) \o U16(0) \o U16(0) \o EncLevel(s, mi)

BlockLengths(l) == {0} \cup {SchemaBlockLength(l) + d : d \in 0..MaxPad}

FlatEntry(bl) == [bl |-> bl, groups |-> <<>>, data |-> <<>>]

FlatGroup(bl, n) == [bl |-> bl, entries |-> Seq0(n, LAMBDA i : FlatEntry(bl))]

\* header 8, blockLength 4, a flat group of 3 entries of 2 bytes, data of 5
\* elements: 29 bytes
Example == [bl |-> 4, groups |-> <<FlatGroup(2, 3)>>, data |-> <<5>>]

InstancesOver(s, Nums, Datas) ==
    CASE s = "S1" ->
            {[bl |-> mbl, groups |-> <<FlatGroup(gbl, n)>>, data |-> <<d>>] :
                mbl \in BlockLengths("S1"), gbl \in BlockLengths("S1.fg"),
                n \in Nums, d \in Datas}
            \cup {Example}
      [] s = "S2" ->
            {[bl |-> mbl,
              groups |-> <<
                 [bl |-> nbl,
                  entries |-> Seq0(nn, LAMBDA i :
                     [bl |-> nbl,
                      groups |-> <<FlatGroup(SchemaBlockLength("S2.ng.sub"),
                                             (i + k) % (MaxNum + 1))>>,
                      data |-> <<(i + k) % (MaxData + 1)>>])],
                 FlatGroup(SchemaBlockLength("S2.fg"), n)>>,
              data |-> <<>>] :
                mbl \in BlockLengths("S2"),
                nbl \in {SchemaBlockLength("S2.ng") + d : d \in 0..MaxPad},
                nn \in Nums, k \in 0..1, n \in 0..1}
      [] s = "S3" ->
            {[bl |-> mbl, groups |-> <<>>, data |-> <<d1, d2>>] :
                mbl \in BlockLengths("S3"),
                d1 \in Datas, d2 \in Datas}
      [] s \in PlainSchemas ->
            {[bl |-> mbl, groups |-> <<>>, data |-> <<>>] : mbl \in BlockLengths(s)}

Instances(s) == InstancesOver(s, 0..MaxNum, 0..MaxData)

Buffers(s) == {EncMessage(s, mi) : mi \in Instances(s)}

\* the messages whose groups and data are all as long as the bounds allow
FullBuffers(s) == {EncMessage(s, mi) : mi \in InstancesOver(s, {MaxNum}, {MaxData})}

----------------------------------------------------------------------------
(* Views.  A message or entry view is [addr, end, lvl, block_length]; a    *)
(* group view is [addr, end, grp]; a data view is [addr, end].  Results    *)
(* of operations carry ok: FALSE when a size check fails (the assertion    *)
(* hook is called) or the access leaves the buffer.                        *)

MessageView(b, s) == [addr |-> Base, end |-> EndOf(b), lvl |-> s, block_length |-> 0]

EntryView(p, e, l, bl) == [addr |-> p, end |-> e, lvl |-> l, block_length |-> bl]

GroupView(p, e, g) == [addr |-> p, end |-> e, grp |-> g]

DataView(p, e) == [addr |-> p, end |-> e]

Fail == [ok |-> FALSE, val |-> 0, ptr |-> Null]

\* detail::get_value(view, offset)
get_value(b, view, offset, n) ==
    IF SizeCheck(view.addr, view.end, offset, n) /\ InBuf(b, view.addr + offset, n)
    THEN [ok |-> TRUE, val |-> get_primitive(b, ByteOrder, view.addr + offset, n)]
    ELSE [ok |-> FALSE, val |-> 0]

\* detail::set_value(view, offset, value): the buffer afterwards
set_value(b, view, offset, v, n) ==
    IF SizeCheck(view.addr, view.end, offset, n) /\ InBuf(b, view.addr + offset, n)
    THEN [ok |-> TRUE, buf |-> set_primitive(b, ByteOrder, view.addr + offset, v, n)]
    ELSE [ok |-> FALSE, buf |-> b]

\* message_base / flat_group_base / nested_group_base :: operator()(get_header_tag)
get_header(b, view, hsize) ==
    SizeCheck(view.addr, view.end, 0, hsize) /\ InBuf(b, view.addr, hsize)

\* header.blockLength() and header.numInGroup() of a header composite at p
HeaderField(b, view, off) == get_value(b, view, off, Wire.word)

\* operator()(get_level_tag): message_base and entry_base
get_level(b, view) ==
    IF Level(view.lvl).message
    THEN [ok |-> get_header(b, view, Wire.messageHeader),
          val |-> view.addr + Wire.messageHeader]
    ELSE [ok |-> TRUE, val |-> view.addr]

\* operator()(get_block_length_tag): message_base and entry_base
get_block_length(b, view) ==
    IF Level(view.lvl).message
    THEN IF get_header(b, view, Wire.messageHeader)
         THEN HeaderField(b, view, Wire.blockLengthOffset)
         ELSE [ok |-> FALSE, val |-> 0]
    ELSE [ok |-> TRUE, val |-> view.block_length]

\* get_level + get_block_length: where the first group or data of a level starts
LevelEnd(b, view) ==
    With(get_block_length(b, view), LAMBDA bl :
    With(get_level(b, view), LAMBDA lv :
        IF lv.ok /\ bl.ok THEN [ok |-> TRUE, val |-> lv.val + bl.val]
        ELSE [ok |-> FALSE, val |-> 0]))

\* dynamic_array_ref::operator()(size_bytes_tag)
DataSizeBytes(b, d) ==
    With(get_value(b, d, 0, Wire.length), LAMBDA n :
        IF n.ok THEN [ok |-> TRUE, val |-> Wire.length + n.val]
        ELSE [ok |-> FALSE, val |-> 0])

\* flat_group_base::operator()(size_bytes_tag)
FlatSizeBytes(b, g) ==
    IF get_header(b, g, Wire.dimension)
    THEN [ok |-> TRUE,
          val |-> Wire.dimension
                  + HeaderField(b, g, Wire.numInGroupOffset).val
                    * HeaderField(b, g, Wire.blockLengthOffset).val]
    ELSE [ok |-> FALSE, val |-> 0]

\* the members of a level that follow its block, in declaration order
Members(l) ==
    Seq0(Len(Level(l).groups), LAMBDA k : [kind |-> "group", grp |-> Level(l).groups[k]])
    \o Seq0(Level(l).ndata, LAMBDA k : [kind |-> "data", grp |-> "-"])

RECURSIVE LevelSizeBytes(_, _), NestedSizeBytes(_, _), MemberSizeBytes(_, _, _),
          MemberAddr(_, _, _), ForwardWalk(_, _, _, _, _, _)

\* size_bytes of the group or data view m = [kind, grp] at address p
MemberSizeBytes(b, m, view) ==
    IF m.kind = "data" THEN DataSizeBytes(b, view)
    ELSE IF IsNested(m.grp) THEN NestedSizeBytes(b, view)
    ELSE FlatSizeBytes(b, view)

MemberView(m, p, e) == IF m.kind = "data" THEN DataView(p, e) ELSE GroupView(p, e, m.grp)

\* the cursor-less accessor of member k: get_first_dynamic_field_view for the
\* first one, get_dynamic_field_view(view, previous member) for the others
MemberAddr(b, view, k) ==
    IF k = 1 THEN LevelEnd(b, view)
    ELSE With(MemberAddr(b, view, k - 1), LAMBDA prev :
            IF ~prev.ok THEN [ok |-> FALSE, val |-> 0]
            ELSE With(MemberSizeBytes(b, Members(view.lvl)[k - 1],
                          MemberView(Members(view.lvl)[k - 1], prev.val, view.end)),
                      LAMBDA sz :
                         IF sz.ok THEN [ok |-> TRUE, val |-> prev.val + sz.val]
                         ELSE [ok |-> FALSE, val |-> 0]))

\* size_bytes of a message or entry: from its address to the end of its last
\* group or data, or header + blockLength when it has none
LevelSizeBytes(b, view) ==
    With(MemberAddr(b, view, Len(Members(view.lvl)) + 1), LAMBDA endp :
        IF endp.ok THEN [ok |-> TRUE, val |-> endp.val - view.addr]
        ELSE [ok |-> FALSE, val |-> 0])

\* forward_iterator: operator* and operator++ applied from index i to n, with
\* `acc` the sum of the sizes of the entries passed
ForwardWalk(b, g, p, i, n, acc) ==
    IF i = n THEN [ok |-> TRUE, val |-> acc, ptr |-> p, steps |-> i]
    ELSE With(LevelSizeBytes(b, EntryView(p, g.end, g.grp,
                               HeaderField(b, g, Wire.blockLengthOffset).val)),
              LAMBDA sz :
                 IF sz.ok /\ SizeCheck(p, g.end, 0, sz.val)
                 THEN ForwardWalk(b, g, p + sz.val, i + 1, n, acc + sz.val)
                 ELSE [ok |-> FALSE, val |-> 0, ptr |-> p, steps |-> i])

\* mutant: the entries are taken to be as long as the header's blockLength
NestedSizeBytes_by_block_length(b, g) ==
    IF get_header(b, g, Wire.dimension)
    THEN [ok |-> TRUE,
          val |-> Wire.dimension
                  + HeaderField(b, g, Wire.numInGroupOffset).val
                    * HeaderField(b, g, Wire.blockLengthOffset).val,
          ptr |-> Null, steps |-> HeaderField(b, g, Wire.numInGroupOffset).val]
    ELSE [ok |-> FALSE, val |-> 0, ptr |-> Null, steps |-> 0]

\* nested_group_base::operator()(size_bytes_tag)
NestedSizeBytes(b, g) ==
    IF get_header(b, g, Wire.dimension)
    THEN ForwardWalk(b, g, g.addr + Wire.dimension, 0,
                     HeaderField(b, g, Wire.numInGroupOffset).val, Wire.dimension)
    ELSE [ok |-> FALSE, val |-> 0, ptr |-> Null, steps |-> 0]

\* sbepp::size_bytes(message)
size_bytes(b, s) == LevelSizeBytes(b, MessageView(b, s))

----------------------------------------------------------------------------
(* detail::forward_iterator over the entries of a nested group: [ok, ptr,  *)
(* index, block_length, end].  Two iterators are equal when their indexes  *)
(* are.                                                                    *)

FwdIt(ok, p, i, bl, e) == [ok |-> ok, ptr |-> p, index |-> i, block_length |-> bl, end |-> e]

\* nested_group_base::begin
forward_begin(b, g) ==
    FwdIt(get_header(b, g, Wire.dimension), g.addr + Wire.dimension, 0,
          HeaderField(b, g, Wire.blockLengthOffset).val, g.end)

\* nested_group_base::end
forward_end(b, g) ==
    FwdIt(get_header(b, g, Wire.dimension), Null,
          HeaderField(b, g, Wire.numInGroupOffset).val,
          HeaderField(b, g, Wire.blockLengthOffset).val, g.end)

\* forward_iterator::operator*
forward_deref(i, grp) == EntryView(i.ptr, i.end, grp, i.block_length)

\* mutant: the pointer is advanced and the index is left alone
forward_increment_index_kept(b, i, grp) ==
    With(LevelSizeBytes(b, forward_deref(i, grp)), LAMBDA sz :
        IF sz.ok /\ SizeCheck(i.ptr, i.end, 0, sz.val)
        THEN FwdIt(TRUE, i.ptr + sz.val, i.index, i.block_length, i.end)
        ELSE FwdIt(FALSE, i.ptr, i.index, i.block_length, i.end))

\* forward_iterator::operator++
forward_increment(b, i, grp) ==
    With(LevelSizeBytes(b, forward_deref(i, grp)), LAMBDA sz :
        IF sz.ok /\ SizeCheck(i.ptr, i.end, 0, sz.val)
        THEN FwdIt(TRUE, i.ptr + sz.val, (i.index + 1) % Pow256(Wire.word),
                   i.block_length, i.end)
        ELSE FwdIt(FALSE, i.ptr, i.index, i.block_length, i.end))

\* operator== of forward_iterator and of input_iterator
iterator_equal(i, j) == i.index = j.index

----------------------------------------------------------------------------
(* detail::random_access_iterator over the entries of a flat group, and    *)
(* flat_group_base's begin, end and operator[].  `dim` describes the       *)
(* group's dimension composite; size_type is the type of its numInGroup    *)
(* and difference_type is make_signed<size_type>.  An iterator is [ptr,    *)
(* block_length, index, end].                                              *)

\* conversion of an integer to size_type
ToSize(dim, v) == v % Pow256(dim.numInGroupBytes)

\* conversion of an integer to difference_type: modulo 2^w into the signed range
ToDifference(dim, v) ==
    IF 2 * ToSize(dim, v) >= Pow256(dim.numInGroupBytes)
    THEN ToSize(dim, v) - Pow256(dim.numInGroupBytes)
    ELSE ToSize(dim, v)

RaIt(p, bl, i, e) == [ptr |-> p, block_length |-> bl, index |-> i, end |-> e]

\* flat_group_base::size
flat_size(b, g, dim) == get_value(b, g, dim.numInGroupOffset, dim.numInGroupBytes).val

\* dimension.blockLength().value()
flat_block_length(b, g, dim) ==
    get_value(b, g, dim.blockLengthOffset, dim.blockLengthBytes).val

\* random_access_iterator::operator+=(difference_type n)
ra_plus_assign(dim, i, n) ==
    RaIt(i.ptr + n * i.block_length, i.block_length, ToSize(dim, i.index + n), i.end)

\* random_access_iterator::operator+(difference_type n)
ra_plus(dim, i, n) == ra_plus_assign(dim, i, n)

\* random_access_iterator::operator*
ra_deref(i, grp) == EntryView(i.ptr, i.end, grp, i.block_length)

\* flat_group_base::begin
flat_begin(b, g, dim) == RaIt(g.addr + dim.size, flat_block_length(b, g, dim), 0, g.end)

\* flat_group_base::operator[](size_type pos): *(begin() + pos), the argument
\* converted from size_type to the difference_type operator+ takes
flat_subscript(b, g, dim, pos) ==
    ra_deref(ra_plus(dim, flat_begin(b, g, dim), ToDifference(dim, pos)), g.grp)

----------------------------------------------------------------------------
(* class cursor: the accessors of the default policy.  Each yields         *)
(* [ok, ptr, val, buf]: the cursor's pointer afterwards, the value read or *)
(* the address of the view returned, and the buffer afterwards.            *)

Acc(ok, p, v, b) == [ok |-> ok, ptr |-> p, val |-> v, buf |-> b]

\* mutant: the cursor advances by the size of the value only
cursor_get_value_offset_dropped(b, ptr, view, offset, n) ==
    IF SizeCheck(ptr, view.end, offset, n) /\ InBuf(b, ptr + offset, n)
    THEN Acc(TRUE, ptr + n, get_primitive(b, ByteOrder, ptr + offset, n), b)
    ELSE Acc(FALSE, ptr, 0, b)

\* cursor::get_value
cursor_get_value(b, ptr, view, offset, n) ==
    IF SizeCheck(ptr, view.end, offset, n) /\ InBuf(b, ptr + offset, n)
    THEN Acc(TRUE, ptr + offset + n, get_primitive(b, ByteOrder, ptr + offset, n), b)
    ELSE Acc(FALSE, ptr, 0, b)

\* cursor::set_value
cursor_set_value(b, ptr, view, offset, v, n) ==
    IF SizeCheck(ptr, view.end, offset, n) /\ InBuf(b, ptr + offset, n)
    THEN Acc(TRUE, ptr + offset + n, v, set_primitive(b, ByteOrder, ptr + offset, v, n))
    ELSE Acc(FALSE, ptr, 0, b)

\* mutant: the jump goes to the start of the level
cursor_get_last_value_to_level(b, ptr, view, offset, n) ==
    With(get_level(b, view), LAMBDA lv :
        IF SizeCheck(ptr, view.end, offset, n) /\ InBuf(b, ptr + offset, n) /\ lv.ok
        THEN Acc(TRUE, lv.val, get_primitive(b, ByteOrder, ptr + offset, n), b)
        ELSE Acc(FALSE, ptr, 0, b))

\* cursor::get_last_value
cursor_get_last_value(b, ptr, view, offset, n) ==
    With(LevelEnd(b, view), LAMBDA le :
        IF SizeCheck(ptr, view.end, offset, n) /\ InBuf(b, ptr + offset, n) /\ le.ok
        THEN Acc(TRUE, le.val, get_primitive(b, ByteOrder, ptr + offset, n), b)
        ELSE Acc(FALSE, ptr, 0, b))

\* cursor::set_last_value
cursor_set_last_value(b, ptr, view, offset, v, n) ==
    IF SizeCheck(ptr, view.end, offset, n) /\ InBuf(b, ptr + offset, n)
    THEN With(set_primitive(b, ByteOrder, ptr + offset, v, n), LAMBDA b2 :
         With(LevelEnd(b2, view), LAMBDA le :
            IF le.ok THEN Acc(TRUE, le.val, v, b2) ELSE Acc(FALSE, ptr, 0, b2)))
    ELSE Acc(FALSE, ptr, 0, b)

\* cursor::get_static_field_view; n is the size_bytes of the returned view
cursor_get_static_field_view(b, ptr, view, offset, n) ==
    IF SizeCheck(ptr, view.end, offset, 0)
    THEN Acc(TRUE, ptr + offset + n, ptr + offset, b)
    ELSE Acc(FALSE, ptr, 0, b)

\* cursor::get_last_static_field_view
cursor_get_last_static_field_view(b, ptr, view, offset, n) ==
    With(LevelEnd(b, view), LAMBDA le :
        IF SizeCheck(ptr, view.end, offset, 0) /\ le.ok
        THEN Acc(TRUE, le.val, ptr + offset, b)
        ELSE Acc(FALSE, ptr, 0, b))

\* mutant: the group's numInGroup is consumed by the read
cursor_get_first_group_view_consuming(b, ptr, view, g) ==
    With(LevelEnd(b, view), LAMBDA le :
        IF le.ok /\ get_header(b, GroupView(le.val, view.end, g), Wire.dimension)
        THEN Acc(TRUE, le.val + Wire.dimension, le.val,
                 set_primitive(b, ByteOrder, le.val + Wire.numInGroupOffset, 0, Wire.word))
        ELSE Acc(FALSE, IF le.ok THEN le.val ELSE ptr, 0, b))

\* cursor::get_first_group_view
cursor_get_first_group_view(b, ptr, view, g) ==
    With(LevelEnd(b, view), LAMBDA le :
        IF le.ok /\ get_header(b, GroupView(le.val, view.end, g), Wire.dimension)
        THEN Acc(TRUE, le.val + Wire.dimension, le.val, b)
        ELSE Acc(FALSE, IF le.ok THEN le.val ELSE ptr, 0, b))

\* cursor::get_first_data_view
cursor_get_first_data_view(b, ptr, view) ==
    With(LevelEnd(b, view), LAMBDA le :
    With(DataSizeBytes(b, DataView(le.val, view.end)), LAMBDA sz :
        IF le.ok /\ sz.ok
        THEN Acc(TRUE, le.val + sz.val, le.val, b)
        ELSE Acc(FALSE, IF le.ok THEN le.val ELSE ptr, 0, b)))

\* cursor::get_group_view
cursor_get_group_view(b, ptr, view, g) ==
    IF get_header(b, GroupView(ptr, view.end, g), Wire.dimension)
    THEN Acc(TRUE, ptr + Wire.dimension, ptr, b)
    ELSE Acc(FALSE, ptr, 0, b)

\* cursor::get_data_view
cursor_get_data_view(b, ptr, view) ==
    With(DataSizeBytes(b, DataView(ptr, view.end)), LAMBDA sz :
        IF sz.ok THEN Acc(TRUE, ptr + sz.val, ptr, b) ELSE Acc(FALSE, ptr, 0, b))

\* init_cursor(view): the address of the view plus the size of its header
init_cursor(b, view) == view.addr + HeaderSize(view.lvl)

\* mutant: the distance from the end of the header
cursor_size_bytes_from_level(view, ptr) == ptr - (view.addr + HeaderSize(view.lvl))

\* message_base::operator()(size_bytes_tag, cursor&), called by size_bytes(v, c)
cursor_size_bytes(view, ptr) == ptr - view.addr

----------------------------------------------------------------------------
(* detail::init_cursor_wrapper: cursor_ops::init(c) *)

\* mutant: the cursor is left at the field, not past it
init_get_value_not_advanced(b, ptr, view, absolute_offset, n) ==
    With(get_value(b, view, absolute_offset, n), LAMBDA r :
        IF r.ok THEN Acc(TRUE, view.addr + absolute_offset, r.val, b)
        ELSE Acc(FALSE, ptr, 0, b))

\* init_cursor_wrapper::get_value
init_get_value(b, ptr, view, absolute_offset, n) ==
    With(get_value(b, view, absolute_offset, n), LAMBDA r :
        IF r.ok THEN Acc(TRUE, view.addr + absolute_offset + n, r.val, b)
        ELSE Acc(FALSE, ptr, 0, b))

\* init_cursor_wrapper::set_value
init_set_value(b, ptr, view, absolute_offset, v, n) ==
    With(set_value(b, view, absolute_offset, v, n), LAMBDA r :
        IF r.ok THEN Acc(TRUE, view.addr + absolute_offset + n, v, r.buf)
        ELSE Acc(FALSE, ptr, 0, b))

\* init_cursor_wrapper::get_last_value
init_get_last_value(b, ptr, view, absolute_offset, n) ==
    With(get_value(b, view, absolute_offset, n), LAMBDA r :
    With(LevelEnd(b, view), LAMBDA le :
        IF r.ok /\ le.ok THEN Acc(TRUE, le.val, r.val, b) ELSE Acc(FALSE, ptr, 0, b)))

\* init_cursor_wrapper::set_last_value
init_set_last_value(b, ptr, view, absolute_offset, v, n) ==
    With(set_value(b, view, absolute_offset, v, n), LAMBDA r :
    With(LevelEnd(r.buf, view), LAMBDA le :
        IF r.ok /\ le.ok THEN Acc(TRUE, le.val, v, r.buf) ELSE Acc(FALSE, ptr, 0, r.buf)))

\* init_cursor_wrapper::get_static_field_view
init_get_static_field_view(b, ptr, view, absolute_offset, n) ==
    IF SizeCheck(view.addr, view.end, absolute_offset, 0)
    THEN Acc(TRUE, view.addr + absolute_offset + n, view.addr + absolute_offset, b)
    ELSE Acc(FALSE, ptr, 0, b)

\* init_cursor_wrapper::get_last_static_field_view
init_get_last_static_field_view(b, ptr, view, absolute_offset, n) ==
    With(LevelEnd(b, view), LAMBDA le :
        IF SizeCheck(view.addr, view.end, absolute_offset, 0) /\ le.ok
        THEN Acc(TRUE, le.val, view.addr + absolute_offset, b)
        ELSE Acc(FALSE, ptr, 0, b))

\* init_cursor_wrapper::get_first_group_view
init_get_first_group_view(b, ptr, view, g) == cursor_get_first_group_view(b, ptr, view, g)

\* init_cursor_wrapper::get_first_data_view
init_get_first_data_view(b, ptr, view) == cursor_get_first_data_view(b, ptr, view)

\* init_cursor_wrapper::get_group_view; getter is the cursor-less accessor
init_get_group_view(b, ptr, view, g, getter) ==
    With(getter, LAMBDA r :
        IF r.ok /\ get_header(b, GroupView(r.val, view.end, g), Wire.dimension)
        THEN Acc(TRUE, r.val + Wire.dimension, r.val, b)
        ELSE Acc(FALSE, ptr, 0, b))

\* init_cursor_wrapper::get_data_view
init_get_data_view(b, ptr, view, getter) ==
    With(getter, LAMBDA r :
    With(DataSizeBytes(b, DataView(r.val, view.end)), LAMBDA sz :
        IF r.ok /\ sz.ok THEN Acc(TRUE, r.val + sz.val, r.val, b)
        ELSE Acc(FALSE, ptr, 0, b)))

----------------------------------------------------------------------------
(* detail::init_dont_move_cursor_wrapper: cursor_ops::init_dont_move(c) *)

\* mutant: the cursor is left at the field, not at the end of the previous one
init_dont_move_get_value_at_field(b, ptr, view, offset, absolute_offset, n) ==
    With(get_value(b, view, absolute_offset, n), LAMBDA r :
        IF r.ok THEN Acc(TRUE, view.addr + absolute_offset, r.val, b)
        ELSE Acc(FALSE, ptr, 0, b))

\* init_dont_move_cursor_wrapper::get_value and get_last_value
init_dont_move_get_value(b, ptr, view, offset, absolute_offset, n) ==
    With(get_value(b, view, absolute_offset, n), LAMBDA r :
        IF r.ok THEN Acc(TRUE, view.addr + absolute_offset - offset, r.val, b)
        ELSE Acc(FALSE, ptr, 0, b))

\* init_dont_move_cursor_wrapper::set_value and set_last_value
init_dont_move_set_value(b, ptr, view, offset, absolute_offset, v, n) ==
    With(set_value(b, view, absolute_offset, v, n), LAMBDA r :
        IF r.ok THEN Acc(TRUE, view.addr + absolute_offset - offset, v, r.buf)
        ELSE Acc(FALSE, ptr, 0, b))

\* init_dont_move_cursor_wrapper::get_static_field_view and
\* get_last_static_field_view
init_dont_move_get_static_field_view(b, ptr, view, offset, absolute_offset, n) ==
    IF SizeCheck(view.addr, view.end, absolute_offset, 0)
    THEN Acc(TRUE, view.addr + absolute_offset - offset, view.addr + absolute_offset, b)
    ELSE Acc(FALSE, ptr, 0, b)

\* init_dont_move_cursor_wrapper::get_first_group_view and get_first_data_view
init_dont_move_get_first_view(b, ptr, view) ==
    With(LevelEnd(b, view), LAMBDA le :
        IF le.ok THEN Acc(TRUE, le.val, le.val, b) ELSE Acc(FALSE, ptr, 0, b))

\* init_dont_move_cursor_wrapper::get_group_view and get_data_view
init_dont_move_get_view(b, ptr, view, getter) ==
    With(getter, LAMBDA r :
        IF r.ok THEN Acc(TRUE, r.val, r.val, b) ELSE Acc(FALSE, ptr, 0, b))

----------------------------------------------------------------------------
(* detail::dont_move_cursor_wrapper: cursor_ops::dont_move(c) *)

\* mutant: the read advances the cursor as the default policy does
dont_move_get_value_advancing(b, ptr, view, offset, n) ==
    cursor_get_value(b, ptr, view, offset, n)

\* dont_move_cursor_wrapper::get_value and get_last_value
dont_move_get_value(b, ptr, view, offset, n) ==
    IF SizeCheck(ptr, view.end, offset, n) /\ InBuf(b, ptr + offset, n)
    THEN Acc(TRUE, ptr, get_primitive(b, ByteOrder, ptr + offset, n), b)
    ELSE Acc(FALSE, ptr, 0, b)

\* dont_move_cursor_wrapper::set_value and set_last_value
dont_move_set_value(b, ptr, view, offset, v, n) ==
    IF SizeCheck(ptr, view.end, offset, n) /\ InBuf(b, ptr + offset, n)
    THEN Acc(TRUE, ptr, v, set_primitive(b, ByteOrder, ptr + offset, v, n))
    ELSE Acc(FALSE, ptr, 0, b)

\* dont_move_cursor_wrapper::get_static_field_view and get_last_static_field_view
dont_move_get_static_field_view(b, ptr, view, offset, n) ==
    IF SizeCheck(ptr, view.end, offset, 0)
    THEN Acc(TRUE, ptr, ptr + offset, b)
    ELSE Acc(FALSE, ptr, 0, b)

\* dont_move_cursor_wrapper::get_first_group_view and get_first_data_view
dont_move_get_first_view(b, ptr, view) ==
    With(LevelEnd(b, view), LAMBDA le :
        IF le.ok THEN Acc(TRUE, le.val, le.val, b) ELSE Acc(FALSE, ptr, 0, b))

\* dont_move_cursor_wrapper::get_group_view and get_data_view
dont_move_get_view(b, ptr, view) == Acc(TRUE, ptr, ptr, b)

----------------------------------------------------------------------------
(* detail::skip_cursor_wrapper: cursor_ops::skip(c).  Nothing is returned. *)

\* skip_cursor_wrapper::get_value
skip_get_value(b, ptr, view, offset, n) ==
    IF SizeCheck(ptr, view.end, offset, n)
    THEN Acc(TRUE, ptr + offset + n, 0, b)
    ELSE Acc(FALSE, ptr, 0, b)

\* mutant: the last field is skipped like any other field
skip_get_last_value_no_jump(b, ptr, view, offset, n) ==
    skip_get_value(b, ptr, view, offset, n)

\* skip_cursor_wrapper::get_last_value
skip_get_last_value(b, ptr, view, offset, n) ==
    With(LevelEnd(b, view), LAMBDA le :
        IF SizeCheck(ptr, view.end, offset, n) /\ le.ok
        THEN Acc(TRUE, le.val, 0, b)
        ELSE Acc(FALSE, ptr, 0, b))

\* skip_cursor_wrapper::get_static_field_view
skip_get_static_field_view(b, ptr, view, offset, n) ==
    IF SizeCheck(ptr, view.end, offset, 0)
    THEN Acc(TRUE, ptr + offset + n, 0, b)
    ELSE Acc(FALSE, ptr, 0, b)

\* skip_cursor_wrapper::get_last_static_field_view
skip_get_last_static_field_view(b, ptr, view, offset, n) ==
    With(LevelEnd(b, view), LAMBDA le :
        IF SizeCheck(ptr, view.end, offset, 0) /\ le.ok
        THEN Acc(TRUE, le.val, 0, b)
        ELSE Acc(FALSE, ptr, 0, b))

\* mutant: only the length or dimension header is skipped
skip_get_view_header_only(b, ptr, view, m) ==
    With(MemberSizeBytes(b, m, MemberView(m, ptr, view.end)), LAMBDA sz :
        IF sz.ok
        THEN Acc(TRUE, ptr + (IF m.kind = "data" THEN Wire.length ELSE Wire.dimension), 0, b)
        ELSE Acc(FALSE, ptr, 0, b))

\* skip_cursor_wrapper::get_group_view and get_data_view: past the whole member
skip_get_view(b, ptr, view, m) ==
    With(MemberSizeBytes(b, m, MemberView(m, ptr, view.end)), LAMBDA sz :
        IF sz.ok THEN Acc(TRUE, ptr + sz.val, 0, b) ELSE Acc(FALSE, ptr, 0, b))

\* skip_cursor_wrapper::get_first_group_view and get_first_data_view
skip_get_first_view(b, ptr, view, m) ==
    With(LevelEnd(b, view), LAMBDA le :
        IF le.ok THEN skip_get_view(b, le.val, view, m) ELSE Acc(FALSE, ptr, 0, b))

----------------------------------------------------------------------------
(* The accessors of a level as the schema compiler generates them: each    *)
(* passes the field's relative and absolute offsets and picks the method   *)
(* by the member's kind and place in its level.                            *)

NumFields(l) == Len(Level(l).fields)

Policies == {"default", "init", "dont_move", "init_dont_move", "skip"}

\* view.field_k(c) and view.field_k(value, c) under a policy
FieldAccess(pol, op, b, ptr, view, k, v) ==
    LET f == Level(view.lvl).fields[k]
        rel == RelativeOffset(view.lvl, k)
        abs == AbsoluteOffset(view.lvl, k)
        n == f.size
        last == k = NumFields(view.lvl)
        isview == f.kind = "view"
    IN  CASE pol = "default" ->
               (CASE isview /\ ~last -> cursor_get_static_field_view(b, ptr, view, rel, n)
                  [] isview /\ last -> cursor_get_last_static_field_view(b, ptr, view, rel, n)
                  [] ~isview /\ ~last /\ op = "get" -> cursor_get_value(b, ptr, view, rel, n)
                  [] ~isview /\ ~last /\ op = "set" -> cursor_set_value(b, ptr, view, rel, v, n)
                  [] ~isview /\ last /\ op = "get" -> cursor_get_last_value(b, ptr, view, rel, n)
                  [] ~isview /\ last /\ op = "set" -> cursor_set_last_value(b, ptr, view, rel, v, n))
          [] pol = "init" ->
               (CASE isview /\ ~last -> init_get_static_field_view(b, ptr, view, abs, n)
                  [] isview /\ last -> init_get_last_static_field_view(b, ptr, view, abs, n)
                  [] ~isview /\ ~last /\ op = "get" -> init_get_value(b, ptr, view, abs, n)
                  [] ~isview /\ ~last /\ op = "set" -> init_set_value(b, ptr, view, abs, v, n)
                  [] ~isview /\ last /\ op = "get" -> init_get_last_value(b, ptr, view, abs, n)
                  [] ~isview /\ last /\ op = "set" -> init_set_last_value(b, ptr, view, abs, v, n))
          [] pol = "init_dont_move" ->
               (CASE isview -> init_dont_move_get_static_field_view(b, ptr, view, rel, abs, n)
                  [] ~isview /\ op = "get" -> init_dont_move_get_value(b, ptr, view, rel, abs, n)
                  [] ~isview /\ op = "set" -> init_dont_move_set_value(b, ptr, view, rel, abs, v, n))
          [] pol = "dont_move" ->
               (CASE isview -> dont_move_get_static_field_view(b, ptr, view, rel, n)
                  [] ~isview /\ op = "get" -> dont_move_get_value(b, ptr, view, rel, n)
                  [] ~isview /\ op = "set" -> dont_move_set_value(b, ptr, view, rel, v, n))
          [] pol = "skip" ->
               (CASE isview /\ ~last -> skip_get_static_field_view(b, ptr, view, rel, n)
                  [] isview /\ last -> skip_get_last_static_field_view(b, ptr, view, rel, n)
                  [] ~isview /\ ~last -> skip_get_value(b, ptr, view, rel, n)
                  [] ~isview /\ last -> skip_get_last_value(b, ptr, view, rel, n))

\* view.member_k(c) for the k-th group or data of the level under a policy
MemberAccess(pol, b, ptr, view, k) ==
    LET m == Members(view.lvl)[k]
        isgroup == m.kind = "group"
        first == k = 1
    IN  CASE pol = "default" ->
               (CASE isgroup /\ first -> cursor_get_first_group_view(b, ptr, view, m.grp)
                  [] isgroup /\ ~first -> cursor_get_group_view(b, ptr, view, m.grp)
                  [] ~isgroup /\ first -> cursor_get_first_data_view(b, ptr, view)
                  [] ~isgroup /\ ~first -> cursor_get_data_view(b, ptr, view))
          [] pol = "init" ->
               (CASE isgroup /\ first -> init_get_first_group_view(b, ptr, view, m.grp)
                  [] isgroup /\ ~first ->
                        init_get_group_view(b, ptr, view, m.grp, MemberAddr(b, view, k))
                  [] ~isgroup /\ first -> init_get_first_data_view(b, ptr, view)
                  [] ~isgroup /\ ~first ->
                        init_get_data_view(b, ptr, view, MemberAddr(b, view, k)))
          [] pol = "init_dont_move" ->
               (CASE first -> init_dont_move_get_first_view(b, ptr, view)
                  [] ~first -> init_dont_move_get_view(b, ptr, view, MemberAddr(b, view, k)))
          [] pol = "dont_move" ->
               (CASE first -> dont_move_get_first_view(b, ptr, view)
                  [] ~first -> dont_move_get_view(b, ptr, view))
          [] pol = "skip" ->
               (CASE first -> skip_get_first_view(b, ptr, view, m)
                  [] ~first -> skip_get_view(b, ptr, view, m))

\* a field (kind "field") or a group or data (kind "member") under a policy
ItemAccess(pol, op, b, ptr, view, kind, k) ==
    IF kind = "field" THEN FieldAccess(pol, op, b, ptr, view, k, Written)
    ELSE MemberAccess(pol, b, ptr, view, k)

\* the members in the default policy, as visit_children reaches them
FieldGet(b, ptr, view, k) == FieldAccess("default", "get", b, ptr, view, k, 0)

MemberGet(b, ptr, view, k) == MemberAccess("default", b, ptr, view, k)

----------------------------------------------------------------------------
(* detail::size_bytes_checked_visitor and size_bytes_checked.  The visitor *)
(* state is [size, valid, group_block_length, ptr, ok]: ptr is the cursor  *)
(* the traversal threads, ok is FALSE once a size check has failed.        *)

Visitor(n, p) ==
    [size |-> n, valid |-> TRUE, group_block_length |-> 0, ptr |-> p, ok |-> TRUE]

\* mutant: the comparison accepts a budget one byte short
validate_and_subtract_off_by_one(v, n) ==
    IF v.size < n - 1 THEN [v EXCEPT !.valid = FALSE]
    ELSE [v EXCEPT !.size = v.size - n]

\* size_bytes_checked_visitor::validate_and_subtract
validate_and_subtract(v, n) ==
    IF v.size < n THEN [v EXCEPT !.valid = FALSE]
    ELSE [v EXCEPT !.size = v.size - n]

Faulted(v) == [v EXCEPT !.ok = FALSE, !.valid = FALSE]

RECURSIVE visit_children(_, _, _, _), on_group(_, _, _), visit_entries(_, _, _, _, _, _)

\* size_bytes_checked_visitor::on_data
on_data(b, d, v) == With(v, LAMBDA v0 : validate_and_subtract(v0, DataSizeBytes(b, d).val))

\* size_bytes_checked_visitor::on_entry
on_entry(b, e, v) ==
    With(v, LAMBDA v0 :
    With(validate_and_subtract(v0, v0.group_block_length), LAMBDA v1 :
        IF ~v1.valid THEN v1 ELSE visit_children(b, e, v1, 1)))

\* flat_group_base / nested_group_base :: operator()(visit_children_tag): the
\* entries i+1 .. n of the cursor range, each at the cursor's pointer
visit_entries(b, g, v, i, n, bl) ==
    IF i = n THEN v
    ELSE With(v, LAMBDA v0 :
         With(on_entry(b, EntryView(v0.ptr, g.end, g.grp, bl), v0), LAMBDA v1 :
            IF ~v1.valid THEN v1 ELSE visit_entries(b, g, v1, i + 1, n, bl)))

\* mutant: the block length installed for the entries stays installed
on_group_not_restoring(b, g, v) ==
    IF ~get_header(b, g, Wire.dimension) THEN Faulted(v)
    ELSE With(v, LAMBDA v0 :
         With(validate_and_subtract(v0, Wire.dimension), LAMBDA v1 :
            IF ~v1.valid THEN v1
            ELSE With(HeaderField(b, g, Wire.blockLengthOffset).val, LAMBDA bl :
                 With(HeaderField(b, g, Wire.numInGroupOffset).val, LAMBDA n :
                    visit_entries(b, g, [v1 EXCEPT !.group_block_length = bl],
                                  0, n, bl)))))

\* size_bytes_checked_visitor::on_group
on_group(b, g, v) ==
    IF ~get_header(b, g, Wire.dimension) THEN Faulted(v)
    ELSE With(v, LAMBDA v0 :
         With(validate_and_subtract(v0, Wire.dimension), LAMBDA v1 :
            IF ~v1.valid THEN v1
            ELSE With(HeaderField(b, g, Wire.blockLengthOffset).val, LAMBDA bl :
                 With(HeaderField(b, g, Wire.numInGroupOffset).val, LAMBDA n :
                 With(visit_entries(b, g, [v1 EXCEPT !.group_block_length = bl],
                                    0, n, bl), LAMBDA v2 :
                    [v2 EXCEPT !.group_block_length = v1.group_block_length])))))

\* operator()(visit_children_tag) of a message or entry: on_field for every
\* field, on_group for every group, on_data for every data, each reached
\* through the cursor, until one of them asks to stop (here: is invalid)
visit_children(b, view, v, i) ==
    IF i > NumFields(view.lvl) + Len(Members(view.lvl)) THEN v
    ELSE IF i <= NumFields(view.lvl)
    THEN With(v, LAMBDA v0 :
         With(FieldGet(b, v0.ptr, view, i), LAMBDA a :
            IF ~a.ok THEN Faulted(v0)
            ELSE visit_children(b, view, [v0 EXCEPT !.ptr = a.ptr], i + 1)))
    ELSE With(v, LAMBDA v0 :
         With(Members(view.lvl)[i - NumFields(view.lvl)], LAMBDA m :
         With(MemberGet(b, v0.ptr, view, i - NumFields(view.lvl)), LAMBDA a :
            IF ~a.ok THEN Faulted(v0)
            ELSE With(IF m.kind = "group"
                      THEN on_group(b, GroupView(a.val, view.end, m.grp),
                                    [v0 EXCEPT !.ptr = a.ptr])
                      ELSE on_data(b, DataView(a.val, view.end),
                                   [v0 EXCEPT !.ptr = a.ptr]),
                      LAMBDA v1 :
                         IF ~v1.valid THEN v1
                         ELSE visit_children(b, view, v1, i + 1)))))

\* size_bytes_checked_visitor::on_message
on_message(b, m, v) ==
    With(validate_and_subtract(v, Wire.messageHeader), LAMBDA v1 :
        IF ~v1.valid THEN v1
        ELSE With(validate_and_subtract(v1,
                      HeaderField(b, m, Wire.blockLengthOffset).val), LAMBDA v2 :
                 IF ~v2.valid THEN v2 ELSE visit_children(b, m, v2, 1)))

\* sbepp::size_bytes_checked(view, size)
size_bytes_checked(b, view, n) ==
    IF view.addr = Null \/ n < Wire.messageHeader
    THEN [valid |-> FALSE, size |-> 0, ok |-> TRUE]
    ELSE IF ~get_header(b, view, Wire.messageHeader)
    THEN [valid |-> FALSE, size |-> 0, ok |-> FALSE]
    ELSE With(on_message(b, view, Visitor(n, init_cursor(b, view))), LAMBDA v :
            IF v.valid THEN [valid |-> TRUE, size |-> n - v.size, ok |-> TRUE]
            ELSE [valid |-> FALSE, size |-> 0, ok |-> v.ok])

----------------------------------------------------------------------------
(* Specification SpecChecked: size_bytes_checked applied to every encoded  *)
(* message of the model and every size argument up to past its end.        *)

NoResult == [kind |-> "none", valid |-> FALSE, size |-> 0, ok |-> TRUE]

NoView == [addr |-> Null, end |-> Null, lvl |-> "-", block_length |-> 0]

NoLast == [kind |-> "none", pol |-> "-", op |-> "-", k |-> 0,
           before |-> Null, after |-> Null, val |-> 0, pre |-> <<>>]

NoIt == [kind |-> "none", ptr |-> Null, index |-> 0]

InitChecked ==
    /\ sid \in Schemas
    /\ buf \in Buffers(sid)
    /\ size \in 0..(Len(buf) + 1)
    /\ pc = "start"
    /\ res = NoResult
    /\ cur = Null
    /\ vw = NoView
    /\ lastAcc = NoLast
    /\ stack = <<>>
    /\ it = NoIt

SizeBytesChecked ==
    /\ pc = "start"
    /\ res' = size_bytes_checked(buf, MessageView(buf, sid), size)
    /\ pc' = "checked"
    /\ UNCHANGED <<buf, sid, size, cur, vw, lastAcc, stack, it>>

NextChecked == SizeBytesChecked

SpecChecked == InitChecked /\ [][NextChecked]_vars

----------------------------------------------------------------------------
(* Specification SpecPolicy: single accesses through a cursor c under each *)
(* advancement policy.  c.pointer() is assignable, so c may hold any       *)
(* address of the buffer, or null, before an access.  A failed size check  *)
(* ends the session, and so does an access that carries the pointer out of *)
(* the buffer (arithmetic past the end of the array is undefined).  A      *)
(* write ends it too, to keep the buffers few.  After a read the session   *)
(* goes on from the position the access left c at.                         *)

\* the pointer values an access may leave in c: into the buffer or one past it
Inside(b, p) == p >= Base /\ p <= EndOf(b)

\* the first entry of the k-th group of the message, reached without a
\* cursor: flat_group_base / nested_group_base :: begin() and operator*
FirstEntry(b, msg, k) ==
    With(MemberAddr(b, msg, k), LAMBDA a :
        IF a.ok /\ get_header(b, GroupView(a.val, msg.end, Members(msg.lvl)[k].grp),
                              Wire.dimension)
           /\ HeaderField(b, GroupView(a.val, msg.end, Members(msg.lvl)[k].grp),
                          Wire.numInGroupOffset).val > 0
        THEN {EntryView(a.val + Wire.dimension, msg.end, Members(msg.lvl)[k].grp,
                        HeaderField(b, GroupView(a.val, msg.end, Members(msg.lvl)[k].grp),
                                    Wire.blockLengthOffset).val)}
        ELSE {})

Views(b, s) ==
    {MessageView(b, s)}
    \cup UNION {FirstEntry(b, MessageView(b, s), k) : k \in 1..Len(Level(s).groups)}

InitPolicy ==
    /\ sid \in Schemas
    /\ buf \in FullBuffers(sid)
    /\ pc = "run"
    /\ cur = Null
    /\ vw = MessageView(buf, sid)
    /\ lastAcc = NoLast
    /\ size = 0
    /\ res = NoResult
    /\ stack = <<>>
    /\ it = NoIt

\* c.pointer() = p
SetPointer(p) ==
    /\ pc = "run"
    /\ cur' = p
    /\ lastAcc' = NoLast
    /\ UNCHANGED <<buf, sid, pc, size, res, vw, stack, it>>

\* c = init_cursor(view)
InitCursor ==
    /\ pc = "run"
    /\ cur' = init_cursor(buf, vw)
    /\ lastAcc' = NoLast
    /\ UNCHANGED <<buf, sid, pc, size, res, vw, stack, it>>

\* the accessors are called on another view of the same message
SelectView(v) ==
    /\ pc = "run"
    /\ v # vw
    /\ vw' = v
    /\ lastAcc' = NoLast
    /\ UNCHANGED <<buf, sid, pc, size, res, cur, stack, it>>

Record(kind, pol, op, k, a) ==
    [kind |-> kind, pol |-> pol, op |-> op, k |-> k,
     before |-> cur, after |-> a.ptr, val |-> a.val, pre |-> buf]

\* view.field_k(policy(c)) or view.field_k(Written, policy(c))
AccessField(pol, op, k) ==
    /\ pc = "run"
    /\ ~(pol = "skip" /\ op = "set")
    /\ ~(Level(vw.lvl).fields[k].kind = "view" /\ op = "set")
    /\ \E a \in {FieldAccess(pol, op, buf, cur, vw, k, Written)} :
           IF a.ok /\ Inside(buf, a.ptr)
           THEN /\ cur' = a.ptr
                /\ buf' = a.buf
                /\ lastAcc' = Record("field", pol, op, k, a)
                /\ pc' = "done"
           ELSE /\ pc' = "fault"
                /\ UNCHANGED <<cur, buf, lastAcc>>
    /\ UNCHANGED <<sid, size, res, vw, stack, it>>

\* view.group_k(policy(c)) or view.data_k(policy(c))
AccessMember(pol, k) ==
    /\ pc = "run"
    /\ \E a \in {MemberAccess(pol, buf, cur, vw, k)} :
           IF a.ok /\ Inside(buf, a.ptr)
           THEN /\ cur' = a.ptr
                /\ lastAcc' = Record("member", pol, "get", k, a)
                /\ pc' = "done"
           ELSE /\ pc' = "fault"
                /\ UNCHANGED <<cur, lastAcc>>
    /\ UNCHANGED <<buf, sid, size, res, vw, stack, it>>

\* the program goes on to its next access
Continue ==
    /\ pc = "done"
    /\ lastAcc.op = "get"
    /\ pc' = "run"
    /\ lastAcc' = NoLast
    /\ UNCHANGED <<buf, sid, size, res, cur, vw, stack, it>>

NextPolicy ==
    \/ Continue
    \/ \E p \in {Null} \cup (Base..EndOf(buf)) : SetPointer(p)
    \/ InitCursor
    \/ \E v \in Views(buf, sid) : SelectView(v)
    \/ \E pol \in Policies, op \in {"get", "set"}, k \in 1..NumFields(vw.lvl) :
          AccessField(pol, op, k)
    \/ \E pol \in Policies, k \in 1..Len(Members(vw.lvl)) : AccessMember(pol, k)

SpecPolicy == InitPolicy /\ [][NextPolicy]_vars

----------------------------------------------------------------------------
(* Properties of single accesses *)

LastOk == pc = "done" /\ lastAcc.kind # "none"

IsLastField == lastAcc.kind = "field" /\ lastAcc.k = NumFields(vw.lvl)

IsFirstMember == lastAcc.kind = "member" /\ lastAcc.k = 1

\* what the cursor-less accessors find at the absolute position of a member:
\* the value of a field, the address of a composite, group or data
MemberAt(b, view, kind, k) ==
    IF kind = "member" THEN MemberAddr(b, view, k).val
    ELSE LET f == Level(view.lvl).fields[k]
         IN  IF f.kind = "view" THEN view.addr + AbsoluteOffset(view.lvl, k)
             ELSE get_value(b, view, AbsoluteOffset(view.lvl, k), f.size).val

\* the access returned the member at its absolute position, or wrote there
AtAbsolutePosition ==
    IF lastAcc.op = "get"
    THEN /\ lastAcc.val = MemberAt(lastAcc.pre, vw, lastAcc.kind, lastAcc.k)
         /\ buf = lastAcc.pre
    ELSE buf = set_value(lastAcc.pre, vw, AbsoluteOffset(vw.lvl, lastAcc.k), Written,
                         Level(vw.lvl).fields[lastAcc.k].size).buf

\* items of a level in declaration order: fields 1..nf, then groups and data
ItemKind(view, i) == IF i <= NumFields(view.lvl) THEN "field" ELSE "member"

ItemK(view, i) == IF i <= NumFields(view.lvl) THEN i ELSE i - NumFields(view.lvl)

ItemIndex(view, kind, k) == IF kind = "field" THEN k ELSE NumFields(view.lvl) + k

\* a session that starts from init_cursor(view), reads the fields before item
\* i in order with the default policy and consumes the groups and data before
\* it, and then accesses item i with the default policy
RECURSIVE InOrderBefore(_, _, _)
InOrderBefore(b, view, i) ==
    IF i = 1 THEN Acc(TRUE, init_cursor(b, view), 0, b)
    ELSE With(InOrderBefore(b, view, i - 1), LAMBDA p :
            IF ~p.ok THEN p
            ELSE ItemAccess(IF ItemKind(view, i - 1) = "field" THEN "default" ELSE "skip",
                            "get", b, p.ptr, view, ItemKind(view, i - 1), ItemK(view, i - 1)))

InOrder(b, view, i, op) ==
    With(InOrderBefore(b, view, i), LAMBDA p :
        IF ~p.ok THEN p
        ELSE ItemAccess("default", op, b, p.ptr, view, ItemKind(view, i), ItemK(view, i)))

\* C3 as stated: under every policy, after the last declared field of a level
\* is accessed the cursor is at the level's start plus its block length.
C3_LastFieldJumpsAlways ==
    (LastOk /\ IsLastField) => cur = LevelEnd(buf, vw).val

\* C3: after the last declared field of a level is accessed, the cursor is at
\* the level's start plus its block length under the default, init and skip
\* policies; dont_move leaves it where it was and init_dont_move leaves it at
\* the end of the preceding field.
C3_LastFieldJump ==
    (LastOk /\ IsLastField) =>
        CASE lastAcc.pol \in {"default", "init", "skip"} -> cur = LevelEnd(buf, vw).val
          [] lastAcc.pol = "dont_move" -> cur = lastAcc.before
          [] lastAcc.pol = "init_dont_move" ->
                cur = vw.addr + AbsoluteOffset(vw.lvl, lastAcc.k)
                      - RelativeOffset(vw.lvl, lastAcc.k)

C3_Witness ==
    /\ LastOk /\ IsLastField
    /\ lastAcc.pol = "skip"
    /\ vw.lvl = "S2.ng"
    /\ cur = vw.addr + SchemaBlockLength("S2.ng") + MaxPad
    /\ lastAcc.before = vw.addr + 1

C6_Init ==
    (LastOk /\ lastAcc.pol = "init") =>
        LET i == ItemIndex(vw, lastAcc.kind, lastAcc.k)
            ref == InOrder(lastAcc.pre, vw, i, lastAcc.op)
            more == /\ i < NumFields(vw.lvl) + Len(Members(vw.lvl))
                    /\ \/ lastAcc.kind = "field"
                       \/ Members(vw.lvl)[lastAcc.k].kind = "data"
        IN  /\ AtAbsolutePosition
            /\ ref.ok
            /\ cur = ref.ptr
            /\ lastAcc.val = ref.val
            /\ buf = ref.buf
            /\ more => ItemAccess("default", "get", buf, cur, vw,
                                  ItemKind(vw, i + 1), ItemK(vw, i + 1))
                       = InOrder(buf, vw, i + 1, "get")

C6_Witness ==
    /\ LastOk
    /\ lastAcc.pol = "init"
    /\ lastAcc.before = Null
    /\ sid = "S2" /\ vw = MessageView(buf, sid)
    /\ lastAcc.kind = "member" /\ lastAcc.k = 2
    /\ cur = MemberAddr(buf, vw, 2).val + Wire.dimension
    /\ cur > LevelEnd(buf, vw).val + Wire.dimension

\* C7: an access through init_dont_move(c) returns the member at its absolute
\* position whatever c held before, leaves c where a default-policy access of
\* the same member finds that member, and leaves c there when repeated.
C7_InitDontMove ==
    (LastOk /\ lastAcc.pol = "init_dont_move") =>
        LET d == ItemAccess("default", "get", buf, cur, vw, lastAcc.kind, lastAcc.k)
            again == ItemAccess("init_dont_move", lastAcc.op, buf, cur, vw,
                                lastAcc.kind, lastAcc.k)
        IN  /\ AtAbsolutePosition
            /\ d.ok
            /\ d.val = MemberAt(buf, vw, lastAcc.kind, lastAcc.k)
            /\ lastAcc.kind = "field" =>
                  cur + RelativeOffset(vw.lvl, lastAcc.k)
                  = vw.addr + AbsoluteOffset(vw.lvl, lastAcc.k)
            /\ again.ok
            /\ again.ptr = cur
            /\ again.buf = buf

C7_Witness ==
    /\ LastOk
    /\ lastAcc.pol = "init_dont_move"
    /\ lastAcc.before = Null
    /\ sid = "S2" /\ vw = MessageView(buf, sid)
    /\ lastAcc.kind = "field" /\ lastAcc.k = 3 /\ lastAcc.op = "get"
    /\ cur = Base + Wire.messageHeader + 3
    /\ lastAcc.val = ByteAt(buf, cur + 1)

----------------------------------------------------------------------------
(* Specification SpecDecode: a program iterates a nested group of a        *)
(* message with forward iterators, and then walks the whole message with   *)
(* one cursor in declaration order: the fields of a level, then each group *)
(* (its cursor range entry by entry, or skipped as a whole), then each     *)
(* data.  A decoding walk reads, and may skip members; an encoding walk    *)
(* writes every value field.  `stack` holds the levels and cursor ranges   *)
(* the walk is inside, innermost last.                                     *)

\* a level being walked: `next` is the item to access next
LevelFrame(v, mode) == [t |-> "level", view |-> v, next |-> 1, n |-> 0, mode |-> mode]

\* cursor_range(c) of a group and its input_iterator: `view` holds the group's
\* address, end and block_length, `next` the iterator's index, `n` the length
RangeFrame(g, bl, n, mode) ==
    [t |-> "range", view |-> EntryView(g.addr, g.end, g.grp, bl),
     next |-> 0, n |-> n, mode |-> mode]

Top == stack[Len(stack)]

Pop(st) == SubSeq(st, 1, Len(st) - 1)

Advanced(st) == [st EXCEPT ![Len(st)].next = (@ + 1) % Pow256(Wire.word)]

NumItems(l) == NumFields(l) + Len(Members(l))

AtField == pc = "run" /\ Top.t = "level" /\ Top.next <= NumFields(Top.view.lvl)

AtMember(kind) ==
    /\ pc = "run" /\ Top.t = "level"
    /\ Top.next > NumFields(Top.view.lvl)
    /\ Top.next <= NumItems(Top.view.lvl)
    /\ Members(Top.view.lvl)[Top.next - NumFields(Top.view.lvl)].kind = kind

InitDecode ==
    /\ sid \in Schemas \cup PlainSchemas
    /\ buf \in Buffers(sid)
    /\ pc = "start"
    /\ cur = Null
    /\ vw = MessageView(buf, sid)
    /\ lastAcc = NoLast
    /\ size = 0
    /\ res = NoResult
    /\ stack = <<>>
    /\ it = NoIt

\* it = g.begin() for the k-th member of the message, a nested group
ForwardBegin(k) ==
    /\ pc = "start"
    /\ Members(sid)[k].kind = "group" /\ IsNested(Members(sid)[k].grp)
    /\ \E a \in {MemberAddr(buf, vw, k)} :
         \E i \in {forward_begin(buf, GroupView(a.val, vw.end, Members(sid)[k].grp))} :
            /\ a.ok /\ i.ok
            /\ it' = [kind |-> "fwd", ptr |-> i.ptr, index |-> i.index,
                      block_length |-> i.block_length, end |-> i.end, ok |-> TRUE,
                      g |-> GroupView(a.val, vw.end, Members(sid)[k].grp), incs |-> 0]
    /\ pc' = "iterate"
    /\ UNCHANGED <<buf, sid, size, res, cur, vw, lastAcc, stack>>

\* it != g.end(), so ++it
ForwardIncrement ==
    /\ pc = "iterate"
    /\ ~iterator_equal(it, forward_end(buf, it.g))
    /\ \E i \in {forward_increment(buf, it, it.g.grp)} :
         IF i.ok
         THEN /\ it' = [it EXCEPT !.ptr = i.ptr, !.index = i.index, !.incs = @ + 1]
              /\ pc' = "iterate"
         ELSE /\ it' = [it EXCEPT !.ok = FALSE]
              /\ pc' = "fault"
    /\ UNCHANGED <<buf, sid, size, res, cur, vw, lastAcc, stack>>

\* it == g.end(): the loop is over
ForwardEnd ==
    /\ pc = "iterate"
    /\ iterator_equal(it, forward_end(buf, it.g))
    /\ pc' = "iterated"
    /\ UNCHANGED <<buf, sid, size, res, cur, vw, lastAcc, stack, it>>

\* c = init_cursor(message), for a walk that decodes (default and skip
\* policies), encodes, or reads everything with the default policy
StartWalk(mode) ==
    /\ pc \in {"start", "iterated"}
    /\ cur' = init_cursor(buf, MessageView(buf, sid))
    /\ stack' = <<LevelFrame(MessageView(buf, sid), mode)>>
    /\ vw' = MessageView(buf, sid)
    /\ it' = NoIt
    /\ pc' = "run"
    /\ UNCHANGED <<buf, sid, size, res, lastAcc>>

\* level.field(c), level.field(Written, c) or level.field(skip(c))
WalkField(pol) ==
    /\ AtField
    /\ pol = "skip" => Top.mode = "decode"
    /\ \E op \in {IF Top.mode = "encode" /\ pol = "default"
                     /\ Level(Top.view.lvl).fields[Top.next].kind = "value"
                  THEN "set" ELSE "get"} :
       \E a \in {FieldAccess(pol, op, buf, cur, Top.view, Top.next, Written)} :
         IF a.ok /\ Inside(buf, a.ptr)
         THEN /\ cur' = a.ptr
              /\ buf' = a.buf
              /\ lastAcc' = Record("field", pol, op, Top.next, a)
              /\ vw' = Top.view
              /\ stack' = Advanced(stack)
              /\ pc' = "run"
         ELSE /\ pc' = "fault"
              /\ UNCHANGED <<cur, buf, lastAcc, vw, stack>>
    /\ UNCHANGED <<sid, size, res, it>>

\* g = level.group(c), then g.cursor_range(c)
WalkGroup ==
    /\ AtMember("group")
    /\ \E k \in {Top.next - NumFields(Top.view.lvl)} :
       \E a \in {MemberAccess("default", buf, cur, Top.view, k)} :
         IF a.ok /\ Inside(buf, a.ptr)
         THEN \E g \in {GroupView(a.val, Top.view.end, Members(Top.view.lvl)[k].grp)} :
              /\ cur' = a.ptr
              /\ lastAcc' = Record("member", "default", "get", k, a)
              /\ vw' = Top.view
              /\ stack' = Append(Advanced(stack),
                                 RangeFrame(g, HeaderField(buf, g, Wire.blockLengthOffset).val,
                                            HeaderField(buf, g, Wire.numInGroupOffset).val,
                                            Top.mode))
              /\ pc' = "run"
         ELSE /\ pc' = "fault"
              /\ UNCHANGED <<cur, lastAcc, vw, stack>>
    /\ UNCHANGED <<buf, sid, size, res, it>>

\* level.data(c), or level.group(skip(c)) / level.data(skip(c))
WalkMember(pol) ==
    /\ IF pol = "skip" THEN (AtMember("group") \/ AtMember("data")) /\ Top.mode = "decode"
       ELSE AtMember("data")
    /\ \E k \in {Top.next - NumFields(Top.view.lvl)} :
       \E a \in {MemberAccess(pol, buf, cur, Top.view, k)} :
         IF a.ok /\ Inside(buf, a.ptr)
         THEN /\ cur' = a.ptr
              /\ lastAcc' = Record("member", pol, "get", k, a)
              /\ vw' = Top.view
              /\ stack' = Advanced(stack)
              /\ pc' = "run"
         ELSE /\ pc' = "fault"
              /\ UNCHANGED <<cur, lastAcc, vw, stack>>
    /\ UNCHANGED <<buf, sid, size, res, it>>

\* input_iterator::operator*: the entry that starts at the cursor
RangeDeref ==
    /\ pc = "run" /\ Top.t = "range"
    /\ Top.next # Top.n
    /\ stack' = Append(stack, LevelFrame(EntryView(cur, Top.view.end, Top.view.lvl,
                                                   Top.view.block_length), Top.mode))
    /\ UNCHANGED <<buf, sid, pc, size, res, cur, vw, lastAcc, it>>

\* the entry has been consumed; input_iterator::operator++
RangeIncrement ==
    /\ pc = "run" /\ Top.t = "level" /\ Len(stack) > 1
    /\ Top.next > NumItems(Top.view.lvl)
    /\ stack' = Advanced(Pop(stack))
    /\ UNCHANGED <<buf, sid, pc, size, res, cur, vw, lastAcc, it>>

\* the iterator equals cursor_range::end(): the walk returns to the level
RangeEnd ==
    /\ pc = "run" /\ Top.t = "range"
    /\ Top.next = Top.n
    /\ stack' = Pop(stack)
    /\ UNCHANGED <<buf, sid, pc, size, res, cur, vw, lastAcc, it>>

\* every member of the message has been accessed: size_bytes(m, c)
WalkDone ==
    /\ pc = "run" /\ Top.t = "level" /\ Len(stack) = 1
    /\ Top.next > NumItems(Top.view.lvl)
    /\ size' = cursor_size_bytes(Top.view, cur)
    /\ pc' = "done"
    /\ UNCHANGED <<buf, sid, res, cur, vw, lastAcc, stack, it>>

NextDecode ==
    \/ \E k \in 1..Len(Members(sid)) : ForwardBegin(k)
    \/ ForwardIncrement
    \/ ForwardEnd
    \/ \E mode \in {"decode", "encode", "read"} : StartWalk(mode)
    \/ \E pol \in {"default", "skip"} : WalkField(pol)
    \/ WalkGroup
    \/ \E pol \in {"default", "skip"} : WalkMember(pol)
    \/ RangeDeref
    \/ RangeIncrement
    \/ RangeEnd
    \/ WalkDone

SpecDecode == InitDecode /\ [][NextDecode]_vars

----------------------------------------------------------------------------
(* Properties of the in-order walk and of forward iteration *)

Walked(kind, pol) ==
    /\ pc \in {"run", "done"}
    /\ lastAcc.kind = kind
    /\ lastAcc.pol = pol

\* the cursor range on top of the stack has been traversed to its end
RangeTraversed == pc = "run" /\ stack # <<>> /\ Top.t = "range" /\ Top.next = Top.n

\* size_bytes of the group whose cursor range is on top of the stack
TopGroupSizeBytes ==
    MemberSizeBytes(buf, [kind |-> "group", grp |-> Top.view.lvl],
                    GroupView(Top.view.addr, Top.view.end, Top.view.lvl))

\* the offset in its block the cursor has reached when field k is next
ReachedOffset(l, k) ==
    IF k = 1 THEN 0 ELSE Level(l).fields[k - 1].off + Level(l).fields[k - 1].size

\* C2: a value field read with the default policy in an in-order walk started
\* by init_cursor is read from the address view + absolute offset, and the
\* value equals the cursor-less get_value of the view at that offset.
C2_CursorAgreesWithOffset ==
    (Walked("field", "default") /\ lastAcc.op = "get"
        /\ Level(vw.lvl).fields[lastAcc.k].kind = "value") =>
        LET r == get_value(lastAcc.pre, vw, AbsoluteOffset(vw.lvl, lastAcc.k),
                           Level(vw.lvl).fields[lastAcc.k].size)
        IN  /\ r.ok
            /\ lastAcc.val = r.val
            /\ lastAcc.before + RelativeOffset(vw.lvl, lastAcc.k)
               = vw.addr + AbsoluteOffset(vw.lvl, lastAcc.k)

C2_Witness ==
    /\ Walked("field", "default") /\ lastAcc.op = "get"
    /\ sid = "S1" /\ vw = MessageView(buf, sid)
    /\ lastAcc.k = 2
    /\ lastAcc.val = ByteAt(buf, Base + Wire.messageHeader + 2)
                     + 256 * ByteAt(buf, Base + Wire.messageHeader + 3)
    /\ lastAcc.val # 0

\* C5: skip(c) leaves c where the default policy leaves it once the member is
\* consumed: after a field or data, where the default access of it leaves c;
\* and the traversal of every entry of a group's cursor range ends where
\* skipping the group from its address ends, at address + size_bytes(group).
C5_SkipIsConsume ==
    /\ (Walked("field", "skip") \/ (Walked("member", "skip")
                                      /\ Members(vw.lvl)[lastAcc.k].kind = "data")) =>
          LET d == ItemAccess("default", "get", buf, lastAcc.before, vw,
                              lastAcc.kind, lastAcc.k)
          IN  d.ok /\ cur = d.ptr
    /\ (Walked("member", "skip") /\ Members(vw.lvl)[lastAcc.k].kind = "group") =>
          LET m == Members(vw.lvl)[lastAcc.k]
              a == IF lastAcc.k = 1 THEN LevelEnd(buf, vw).val ELSE lastAcc.before
          IN  cur = a + MemberSizeBytes(buf, m, MemberView(m, a, vw.end)).val
    /\ RangeTraversed =>
          /\ TopGroupSizeBytes.ok
          /\ cur = Top.view.addr + TopGroupSizeBytes.val
          /\ cur = skip_get_view(buf, Top.view.addr, Top.view,
                                 [kind |-> "group", grp |-> Top.view.lvl]).ptr

C5_Witness ==
    /\ RangeTraversed
    /\ Top.view.lvl = "S1.fg"
    /\ Top.n = MaxNum
    /\ Top.view.block_length = SchemaBlockLength("S1.fg") + MaxPad
    /\ cur = Top.view.addr + Wire.dimension + MaxNum * Top.view.block_length

\* C8 as stated: no default-policy access of an in-order walk moves the cursor
\* to a lower address, for every blockLength stored in the header.
C8_NeverBackward ==
    (pc \in {"run", "done"} /\ lastAcc.pol = "default") => lastAcc.after >= lastAcc.before

\* C8: no default-policy access of an in-order walk moves the cursor to a lower
\* address, provided the level's blockLength is not smaller than the offset
\* in the block that the cursor has reached when the last fixed field is
\* accessed; with a smaller blockLength that access moves the cursor back.
C8_NotBackward ==
    (pc \in {"run", "done"} /\ lastAcc.pol = "default") =>
        IF IsLastField /\ get_block_length(buf, vw).val < ReachedOffset(vw.lvl, lastAcc.k)
        THEN lastAcc.after < lastAcc.before
        ELSE lastAcc.after >= lastAcc.before

C8_Witness ==
    /\ Walked("field", "default") /\ IsLastField
    /\ sid = "S2" /\ vw = MessageView(buf, sid)
    /\ get_block_length(buf, vw).val = SchemaBlockLength("S2") + MaxPad
    /\ lastAcc.after = lastAcc.before + 1 + 1 + MaxPad

\* C9: forward iteration of a nested group from begin() to end() makes exactly
\* numInGroup increments; and when the cursor range of a nested group has been
\* traversed, consuming each entry, the cursor is at group address +
\* size_bytes(group).
C9_NestedTraversal ==
    /\ it.kind = "fwd" =>
          /\ it.ok
          /\ it.incs = it.index
          /\ it.incs <= forward_end(buf, it.g).index
          /\ pc = "iterated" => it.incs = HeaderField(buf, it.g, Wire.numInGroupOffset).val
    /\ (RangeTraversed /\ IsNested(Top.view.lvl)) =>
          cur = Top.view.addr + NestedSizeBytes(buf, GroupView(Top.view.addr, Top.view.end,
                                                              Top.view.lvl)).val

C9_Witness ==
    /\ pc = "iterated"
    /\ it.kind = "fwd"
    /\ it.incs = MaxNum
    /\ it.ptr = EndOf(buf) - (Wire.dimension + SchemaBlockLength("S2.fg"))

----------------------------------------------------------------------------
(* Specification SpecIter: random access into a flat group whose dimension *)
(* composite has a uint16 blockLength and a uint8 numInGroup, so that      *)
(* size_type is uint8_t and difference_type is int8_t.  The group follows  *)
(* Preamble bytes of the same buffer and holds all its entries.            *)

Dim8 == [size |-> 3, blockLengthOffset |-> 0, blockLengthBytes |-> 2,
         numInGroupOffset |-> 2, numInGroupBytes |-> 1]

MaxBlock == 2

\* the largest difference_type value, and the sizes of the groups
MaxDifference == (Pow256(Dim8.numInGroupBytes) \div 2) - 1

IterSizes == {0, MaxNum, MaxDifference, MaxDifference + 2, 2 * MaxDifference + 1}

\* the operands of iterator arithmetic
Steps == {-1, 1, MaxDifference \div 2 + 1, MaxDifference}

Preamble == (MaxDifference + 1) * MaxBlock

IterBuffer(bl, n) ==
    Seq0(Preamble, LAMBDA i : 0)
    \o PrimitiveBytes(ByteOrder, bl, Dim8.blockLengthBytes)
    \o PrimitiveBytes(ByteOrder, n, Dim8.numInGroupBytes)
    \o Seq0(n * bl, LAMBDA i : 32 + (i % 64))

IterGroup(b) == GroupView(Base + Preamble, EndOf(b), "F8")

InitIter ==
    /\ sid = "F8"
    /\ buf \in {IterBuffer(bl, n) : bl \in 1..MaxBlock, n \in IterSizes}
    /\ pc = "start"
    /\ it = NoIt
    /\ res = NoResult
    /\ vw = IterGroup(buf)
    /\ cur = Null
    /\ lastAcc = NoLast
    /\ size = 0
    /\ stack = <<>>

\* g[pos] and *(g.begin() + pos) for a position of the group
Subscript(pos) ==
    /\ pc = "start"
    /\ pos < flat_size(buf, vw, Dim8)
    /\ res' = [kind |-> "subscript", pos |-> pos,
               sub |-> flat_subscript(buf, vw, Dim8, pos),
               plus |-> ra_deref(ra_plus(Dim8, flat_begin(buf, vw, Dim8),
                                         ToDifference(Dim8, pos)), vw.grp)]
    /\ pc' = "done"
    /\ UNCHANGED <<buf, sid, size, cur, vw, lastAcc, stack, it>>

\* it = g.begin()
IterBegin ==
    /\ pc = "start"
    /\ \E i \in {flat_begin(buf, vw, Dim8)} :
          it' = [kind |-> "ra", ptr |-> i.ptr, block_length |-> i.block_length,
                 index |-> i.index, end |-> i.end]
    /\ pc' = "iter"
    /\ UNCHANGED <<buf, sid, size, res, cur, vw, lastAcc, stack>>

InRange(i) == i >= 0 /\ i <= flat_size(buf, vw, Dim8)

\* it += n
IterPlus(n) ==
    /\ pc = "iter"
    /\ InRange(it.index + n)
    /\ \E i \in {ra_plus_assign(Dim8, it, n)} :
          it' = [it EXCEPT !.ptr = i.ptr, !.index = i.index]
    /\ res' = NoResult
    /\ UNCHANGED <<buf, sid, pc, size, cur, vw, lastAcc, stack>>

\* (it + a) + b and it + (a + b); a + b is an int, converted to difference_type
IterAssoc(a, b) ==
    /\ pc = "iter"
    /\ InRange(it.index + a) /\ InRange(it.index + a + b)
    /\ res' = [kind |-> "assoc", a |-> a, b |-> b,
               lhs |-> ra_plus(Dim8, ra_plus(Dim8, it, a), b),
               rhs |-> ra_plus(Dim8, it, ToDifference(Dim8, a + b))]
    /\ UNCHANGED <<buf, sid, pc, size, cur, vw, lastAcc, stack, it>>

NextIter ==
    \/ \E pos \in 0..(2 * MaxDifference + 1) : Subscript(pos)
    \/ IterBegin
    \/ \E n \in Steps : IterPlus(n)
    \/ \E a \in Steps, b \in Steps : IterAssoc(a, b)

SpecIter == InitIter /\ [][NextIter]_vars

\* C10: for a flat group, g[i] and *(begin() + i) are the same entry, at group
\* address + header size + i * blockLength with the group's blockLength, for
\* every i < size(); and (it + a) + b and it + (a + b) have the same index and
\* the same pointer for all a, b that keep the index within [0, size()].
C10_FlatIndexing ==
    /\ res.kind = "subscript" =>
          /\ res.sub = res.plus
          /\ res.sub.addr = vw.addr + Dim8.size
                            + res.pos * flat_block_length(buf, vw, Dim8)
          /\ res.sub.block_length = flat_block_length(buf, vw, Dim8)
    /\ res.kind = "assoc" =>
          /\ res.lhs.index = res.rhs.index
          /\ res.lhs.ptr = res.rhs.ptr

----------------------------------------------------------------------------
(* flat_group_base::operator()(size_bytes_tag) and end() over the whole    *)
(* range of the header's types.  A std::size_t (and a pointer) is four     *)
(* 16-bit words, least significant first; the header values are 8- or      *)
(* 16-bit unsigned, so the multiplication is done in int after integer     *)
(* promotion.  A product above INT_MAX is a signed overflow: the build may *)
(* wrap it, may compute it wide, or may trap.                              *)

Word == Pow256(2)

\* a non-negative integer below 2^31 as a std::size_t
Wide(v) == <<v % Word, v \div Word, 0, 0>>

\* addition of std::size_t values, modulo 2^64
AddWide(a, b) ==
    With((a[1] + b[1]), LAMBDA s1 :
    With((a[2] + b[2] + s1 \div Word), LAMBDA s2 :
    With((a[3] + b[3] + s2 \div Word), LAMBDA s3 :
      <<s1 % Word, s2 % Word, s3 % Word, (a[4] + b[4] + s3 \div Word) % Word>>)))

\* the product of two values below 2^16, as <<low word, high word>>
MulWords(a, b) ==
    With(((a \div 256) * b), LAMBDA p1 :
    With(((p1 % 256) * 256 + (a % 256) * b), LAMBDA t :
      <<t % Word, p1 \div 256 + t \div Word>>))

Outcomes == {"wrap", "wide", "trap"}

\* numInGroup().value() * blockLength().value(), both promoted to int, then
\* converted to std::size_t for the addition
IntProduct(n, bl, outcome) ==
    With(MulWords(n, bl), LAMBDA p :
      IF 2 * p[2] < Word THEN [ok |-> TRUE, val |-> <<p[1], p[2], 0, 0>>]
      ELSE CASE outcome = "wrap" ->
                  [ok |-> TRUE, val |-> <<p[1], p[2], Word - 1, Word - 1>>]
             [] outcome = "wide" -> [ok |-> TRUE, val |-> <<p[1], p[2], 0, 0>>]
             [] OTHER -> [ok |-> FALSE, val |-> Wide(0)])

\* flat_group_base::operator()(get_header_tag)
flat_get_header(b, g, dim) ==
    SizeCheck(g.addr, g.end, 0, dim.size) /\ InBuf(b, g.addr, dim.size)

\* flat_group_base::operator()(size_bytes_tag)
flat_size_bytes(b, g, dim, outcome) ==
    IF ~flat_get_header(b, g, dim) THEN [ok |-> FALSE, val |-> Wide(0)]
    ELSE With(IntProduct(flat_size(b, g, dim), flat_block_length(b, g, dim), outcome),
              LAMBDA p : [ok |-> p.ok, val |-> AddWide(Wide(dim.size), p.val)])

\* flat_group_base::end
flat_end(b, g, dim, outcome) ==
    With(flat_size_bytes(b, g, dim, outcome), LAMBDA s :
      [ok |-> s.ok, ptr |-> AddWide(Wide(g.addr), s.val),
       block_length |-> flat_block_length(b, g, dim),
       index |-> flat_size(b, g, dim), end |-> g.end])

Dim16 == [size |-> Wire.dimension,
          blockLengthOffset |-> Wire.blockLengthOffset, blockLengthBytes |-> Wire.word,
          numInGroupOffset |-> Wire.numInGroupOffset, numInGroupBytes |-> Wire.word]

DimOf(s) == IF s = "F8" THEN Dim8 ELSE Dim16

\* values at the ends and in the middle of the range of a k-byte unsigned type
Samples(k) == {0, 1, MaxNum, Pow256(k) \div 2 - 1, Pow256(k) \div 2,
               Pow256(k) - 2, Pow256(k) - 1}

\* the dimension header of a group; size_bytes and end read nothing else
HeaderBytes(dim, bl, n) ==
    PrimitiveBytes(ByteOrder, bl, dim.blockLengthBytes)
    \o PrimitiveBytes(ByteOrder, n, dim.numInGroupBytes)

(* Specification SpecFlatSize: size_bytes() and end() of a flat group for  *)
(* header values over the range of their types.                            *)
InitFlatSize ==
    /\ sid \in {"F8", "F16"}
    /\ buf \in {HeaderBytes(DimOf(sid), bl, n) :
                   bl \in Samples(DimOf(sid).blockLengthBytes),
                   n \in Samples(DimOf(sid).numInGroupBytes)}
    /\ pc = "start"
    /\ vw = GroupView(Base, EndOf(buf), sid)
    /\ res = NoResult
    /\ it = NoIt
    /\ cur = Null
    /\ lastAcc = NoLast
    /\ size = 0
    /\ stack = <<>>

\* sbepp::size_bytes(g)
FlatSizeBytesCall(outcome) ==
    /\ pc = "start"
    /\ \E s \in {flat_size_bytes(buf, vw, DimOf(sid), outcome)} :
          res' = [kind |-> "flat_size", ok |-> s.ok, size |-> s.val]
    /\ pc' = "sized"
    /\ UNCHANGED <<buf, sid, size, cur, vw, lastAcc, stack, it>>

\* g.end()
FlatEndCall(outcome) ==
    /\ pc = "sized"
    /\ \E e \in {flat_end(buf, vw, DimOf(sid), outcome)} :
          it' = [kind |-> "end", ok |-> e.ok, ptr |-> e.ptr, index |-> e.index]
    /\ pc' = "done"
    /\ UNCHANGED <<buf, sid, size, res, cur, vw, lastAcc, stack>>

NextFlatSize ==
    \/ \E outcome \in Outcomes : FlatSizeBytesCall(outcome)
    \/ \E outcome \in Outcomes : FlatEndCall(outcome)

SpecFlatSize == InitFlatSize /\ [][NextFlatSize]_vars

\* header size + numInGroup * blockLength, the product taken in the integers
ExactFlatSize(b, g, dim) ==
    With(MulWords(flat_size(b, g, dim), flat_block_length(b, g, dim)), LAMBDA p :
      AddWide(Wide(dim.size), <<p[1], p[2], 0, 0>>))

\* C11: a flat group's size_bytes() is the dimension header size plus the
\* mathematical product numInGroup * blockLength for every pair of values of
\* the header's types, and end() points at group address + that size.
C11_FlatSizeExact ==
    /\ res.kind = "flat_size" =>
          res.ok /\ res.size = ExactFlatSize(buf, vw, DimOf(sid))
    /\ it.kind = "end" =>
          it.ok /\ it.ptr = AddWide(Wide(vw.addr), ExactFlatSize(buf, vw, DimOf(sid)))

\* the walk that read the whole message with the default policy is over
ReadDone == pc = "done" /\ stack # <<>> /\ Top.mode = "read"

----------------------------------------------------------------------------
(* detail::dynamic_array_ref: a view [addr, end) over a length prefix of   *)
(* Wire.length bytes followed by one-byte elements.  Iterators are element *)
(* addresses.  An operation yields [ok, buf]: ok is FALSE when an          *)
(* assertion or size check failed (the handler does not return), and buf   *)
(* is the memory at that moment.                                           *)

Arr(ok, b) == [ok |-> ok, buf |-> b]

\* conversion to size_type
ToLength(v) == v % Pow256(Wire.length)

Peek(b, p) == IF InBuf(b, p, 1) THEN ByteAt(b, p) ELSE 0

\* *p = x
Poke(b, p, x) == IF InBuf(b, p, 1) THEN [b EXCEPT ![p - Base + 1] = x] ELSE b

\* std::copy(first, last, d_first)
RECURSIVE Copy(_, _, _, _)
Copy(b, first, last, d_first) ==
    IF first >= last THEN b
    ELSE Copy(Poke(b, d_first, Peek(b, first)), first + 1, last, d_first + 1)

\* std::copy_backward(first, last, d_last)
RECURSIVE CopyBackward(_, _, _, _)
CopyBackward(b, first, last, d_last) ==
    IF first >= last THEN b
    ELSE CopyBackward(Poke(b, d_last - 1, Peek(b, last - 1)), first, last - 1, d_last - 1)

\* std::fill_n(p, n, value)
RECURSIVE FillN(_, _, _, _)
FillN(b, p, n, value) ==
    IF n = 0 THEN b ELSE FillN(Poke(b, p, value), p + 1, n - 1, value)

\* std::copy(first, last, pos) from a range outside the buffer
RECURSIVE CopyIn(_, _, _)
CopyIn(b, src, pos) ==
    IF src = <<>> THEN b ELSE CopyIn(Poke(b, pos, Head(src)), Tail(src), pos + 1)

\* dynamic_array_ref::size
array_size(b, d) == get_value(b, d, 0, Wire.length)

data_unchecked(d) == d.addr + Wire.length

data_checked(b, d) ==
    With(array_size(b, d), LAMBDA n :
      [ok |-> n.ok /\ SizeCheck(d.addr, d.end, 0, Wire.length + n.val),
       val |-> data_unchecked(d)])

\* dynamic_array_ref::begin and end
array_begin(b, d) == data_checked(b, d)

array_end(b, d) ==
    With(data_checked(b, d), LAMBDA p :
      [ok |-> p.ok, val |-> p.val + array_size(b, d).val])

\* dynamic_array_ref::data
array_data(b, d) ==
    IF array_size(b, d).ok /\ array_size(b, d).val # 0 THEN data_checked(b, d)
    ELSE [ok |-> FALSE, val |-> Null]

\* dynamic_array_ref::operator[]: the address of the element
array_subscript(b, d, pos) ==
    IF array_size(b, d).ok /\ pos < array_size(b, d).val
    THEN With(array_data(b, d), LAMBDA p : [ok |-> p.ok, val |-> p.val + pos])
    ELSE [ok |-> FALSE, val |-> Null]

\* mutant: the elements dropped are cleared
resize_default_init_clearing(b, d, count) ==
    IF SizeCheck(d.addr, d.end, 0, Wire.length + count)
    THEN Arr(TRUE, FillN(set_primitive(b, ByteOrder, d.addr, count, Wire.length),
                         data_unchecked(d) + count,
                         (d.end - data_unchecked(d)) - count, 0))
    ELSE Arr(FALSE, b)

\* resize(count, default_init)
resize_default_init(b, d, count) ==
    IF SizeCheck(d.addr, d.end, 0, Wire.length + count)
    THEN Arr(TRUE, set_primitive(b, ByteOrder, d.addr, count, Wire.length))
    ELSE Arr(FALSE, b)

\* for(i = old_size; i != count; i++) operator[](i) = value
RECURSIVE SetElements(_, _, _, _, _)
SetElements(b, d, i, count, value) ==
    IF i = count THEN Arr(TRUE, b)
    ELSE With(array_subscript(b, d, i), LAMBDA e :
           IF e.ok THEN SetElements(Poke(b, e.val, value), d, i + 1, count, value)
           ELSE Arr(FALSE, b))

\* resize(count, value)
resize_value(b, d, count, value) ==
    With(array_size(b, d), LAMBDA old :
      IF ~old.ok THEN Arr(FALSE, b)
      ELSE With(resize_default_init(b, d, count), LAMBDA r :
             IF r.ok /\ count > old.val
             THEN SetElements(r.buf, d, old.val, count, value)
             ELSE r))

\* mutant: every element up to count is value-initialized
resize_from_zero(b, d, count) ==
    With(resize_default_init(b, d, count), LAMBDA r :
      IF r.ok THEN SetElements(r.buf, d, 0, count, 0) ELSE r)

\* resize(count): the new elements are value-initialized
resize(b, d, count) ==
    With(array_size(b, d), LAMBDA old :
      IF ~old.ok THEN Arr(FALSE, b)
      ELSE With(resize_default_init(b, d, count), LAMBDA r :
             IF r.ok /\ count > old.val
             THEN SetElements(r.buf, d, old.val, count, 0)
             ELSE r))

push_back(b, d, value) ==
    With(array_size(b, d), LAMBDA current_size :
      IF ~current_size.ok THEN Arr(FALSE, b)
      ELSE With(resize_default_init(b, d, ToLength(current_size.val + 1)), LAMBDA r :
             IF ~r.ok THEN r
             ELSE With(array_subscript(r.buf, d, current_size.val), LAMBDA e :
                    IF e.ok THEN Arr(TRUE, Poke(r.buf, e.val, value))
                    ELSE Arr(FALSE, r.buf))))

pop_back(b, d) ==
    IF array_size(b, d).ok /\ array_size(b, d).val # 0
    THEN resize_default_init(b, d, ToLength(array_size(b, d).val - 1))
    ELSE Arr(FALSE, b)

\* erase(pos)
erase(b, d, pos) ==
    With(array_begin(b, d), LAMBDA bg :
    With(array_end(b, d), LAMBDA en :
      IF bg.ok /\ en.ok /\ pos >= bg.val /\ pos < en.val
      THEN resize_default_init(Copy(b, pos + 1, en.val, pos), d,
                               ToLength(array_size(b, d).val - 1))
      ELSE Arr(FALSE, b)))

\* erase(first, last)
erase_range(b, d, first, last) ==
    With(array_begin(b, d), LAMBDA bg :
    With(array_end(b, d), LAMBDA en :
      IF bg.ok /\ en.ok /\ first >= bg.val /\ last < en.val
      THEN resize_default_init(Copy(b, last, en.val, first), d,
                               ToLength(array_size(b, d).val - (last - first)))
      ELSE Arr(FALSE, b)))

\* mutant: the tail is not moved
insert_overwriting(b, d, pos, value) ==
    With(resize_default_init(b, d, ToLength(array_size(b, d).val + 1)), LAMBDA r :
      IF r.ok THEN Arr(TRUE, Poke(r.buf, pos, value)) ELSE r)

\* insert(pos, value)
insert(b, d, pos, value) ==
    With(array_begin(b, d), LAMBDA bg :
    With(array_end(b, d), LAMBDA old_end :
      IF bg.ok /\ old_end.ok /\ pos >= bg.val /\ pos <= old_end.val
      THEN With(resize_default_init(b, d, ToLength(array_size(b, d).val + 1)), LAMBDA r :
             IF ~r.ok THEN r
             ELSE With(array_end(r.buf, d), LAMBDA en :
                    IF en.ok
                    THEN Arr(TRUE, Poke(CopyBackward(r.buf, pos, old_end.val, en.val),
                                        pos, value))
                    ELSE Arr(FALSE, r.buf)))
      ELSE Arr(FALSE, b)))

\* insert(pos, count, value)
insert_count(b, d, pos, count, value) ==
    With(array_begin(b, d), LAMBDA bg :
    With(array_end(b, d), LAMBDA old_end :
      IF bg.ok /\ old_end.ok /\ pos >= bg.val /\ pos <= old_end.val
      THEN With(resize_default_init(b, d, ToLength(array_size(b, d).val + count)), LAMBDA r :
             IF ~r.ok THEN r
             ELSE With(array_end(r.buf, d), LAMBDA en :
                    IF en.ok
                    THEN Arr(TRUE, FillN(CopyBackward(r.buf, pos, old_end.val, en.val),
                                         pos, count, value))
                    ELSE Arr(FALSE, r.buf)))
      ELSE Arr(FALSE, b)))

\* insert(pos, first, last) for forward iterators: insert_impl
insert_range(b, d, pos, src) ==
    With(array_begin(b, d), LAMBDA bg :
    With(array_end(b, d), LAMBDA old_end :
      IF bg.ok /\ old_end.ok /\ pos >= bg.val /\ pos <= old_end.val
      THEN With(resize_default_init(b, d, ToLength(array_size(b, d).val + Len(src))),
                LAMBDA r :
             IF ~r.ok THEN r
             ELSE With(array_end(r.buf, d), LAMBDA en :
                    IF en.ok
                    THEN Arr(TRUE, CopyIn(CopyBackward(r.buf, pos, old_end.val, en.val),
                                          src, pos))
                    ELSE Arr(FALSE, r.buf)))
      ELSE Arr(FALSE, b)))

\* assign(count, value)
assign_count(b, d, count, value) ==
    With(resize_default_init(b, d, count), LAMBDA r :
      IF ~r.ok THEN r
      ELSE With(array_begin(r.buf, d), LAMBDA bg :
             IF bg.ok THEN Arr(TRUE, FillN(r.buf, bg.val, count, value))
             ELSE Arr(FALSE, r.buf)))

\* assign(first, last): the loop from element n on, then resize(size, default_init)
RECURSIVE assign_loop(_, _, _, _)
assign_loop(b, d, src, n) ==
    IF n = Len(src) THEN resize_default_init(b, d, ToLength(n))
    ELSE IF SizeCheck(d.addr, d.end, 0, Wire.length + n)
         THEN assign_loop(Poke(b, data_unchecked(d) + n, src[n + 1]), d, src, n + 1)
         ELSE Arr(FALSE, b)

assign_range(b, d, src) == assign_loop(b, d, src, 0)

----------------------------------------------------------------------------
(* Specification SpecArray: one or two operations on a dynamic array that  *)
(* holds k elements in a view with room for c, followed by Guard bytes     *)
(* that are outside the view.                                              *)

MaxElems == 3

Guard == 1

\* the elements a range of n elements outside the buffer holds
Source(n) == Seq0(n, LAMBDA i : Written + i)

ArrayBuffer(c, k) ==
    U16(k) \o Seq0(k, LAMBDA i : 64 + i) \o Seq0(c - k, LAMBDA i : 128 + i)
    \o Seq0(Guard, LAMBDA i : 255)

\* the elements of the array, read without checks
Elements(b, d) ==
    Seq0(get_primitive(b, ByteOrder, d.addr, Wire.length),
         LAMBDA i : Peek(b, data_unchecked(d) + i - 1))

\* the number of elements the view has room for
Capacity(d) == (d.end - d.addr) - Wire.length

NoCall == [kind |-> "none", pre |-> <<>>, ok |-> TRUE, a |-> 0, b |-> 0,
           val |-> 0, src |-> <<>>]

InitArray ==
    /\ sid = "array"
    /\ \E c \in 0..MaxElems : \E k \in 0..c :
          /\ buf = ArrayBuffer(c, k)
          /\ vw = DataView(Base, Base + Wire.length + c)
    /\ pc = "start"
    /\ lastAcc = NoCall
    /\ stack = <<>>
    /\ res = NoResult
    /\ it = NoIt
    /\ cur = Null
    /\ size = 0

\* the call `kind` with arguments a, b, value and src has produced r
ArrayStep(kind, a, b, value, src, r) ==
    \E x \in {r} :
       /\ buf' = x.buf
       /\ stack' = (IF pc = "start" THEN <<>> ELSE <<lastAcc>>)
       /\ lastAcc' = [kind |-> kind, pre |-> buf, ok |-> x.ok, a |-> a, b |-> b,
                      val |-> value, src |-> src]
       /\ pc' = (IF ~x.ok THEN "fault" ELSE IF pc = "start" THEN "one" ELSE "two")
       /\ UNCHANGED <<sid, size, res, cur, vw, it>>

\* no assertion has failed and fewer than two calls were made
Ready == pc \in {"start", "one"}

Size == get_primitive(buf, ByteOrder, vw.addr, Wire.length)

Begin == data_unchecked(vw)

Resize(n) ==
    /\ Ready
    /\ ArrayStep("resize", n, 0, 0, <<>>, resize(buf, vw, n))

ResizeValue(n, v) ==
    /\ Ready
    /\ ArrayStep("resize_value", n, 0, v, <<>>, resize_value(buf, vw, n, v))

ResizeDefaultInit(n) ==
    /\ Ready
    /\ ArrayStep("resize_default_init", n, 0, 0, <<>>, resize_default_init(buf, vw, n))

PushBack(v) ==
    /\ Ready
    /\ ArrayStep("push_back", 0, 0, v, <<>>, push_back(buf, vw, v))

PopBack ==
    /\ Ready /\ Size > 0
    /\ ArrayStep("pop_back", 0, 0, 0, <<>>, pop_back(buf, vw))

Erase(p) ==
    /\ Ready /\ p < Size
    /\ ArrayStep("erase", p, 0, 0, <<>>, erase(buf, vw, Begin + p))

EraseRange(f, l) ==
    /\ Ready /\ f <= l /\ l <= Size
    /\ ArrayStep("erase_range", f, l, 0, <<>>, erase_range(buf, vw, Begin + f, Begin + l))

Insert(p, v) ==
    /\ Ready /\ p <= Size
    /\ ArrayStep("insert", p, 0, v, <<>>, insert(buf, vw, Begin + p, v))

InsertCount(p, n, v) ==
    /\ Ready /\ p <= Size
    /\ ArrayStep("insert_count", p, n, v, <<>>, insert_count(buf, vw, Begin + p, n, v))

InsertRange(p, n) ==
    /\ Ready /\ p <= Size
    /\ ArrayStep("insert_range", p, n, 0, Source(n),
                 insert_range(buf, vw, Begin + p, Source(n)))

AssignCount(n, v) ==
    /\ Ready
    /\ ArrayStep("assign_count", n, 0, v, <<>>, assign_count(buf, vw, n, v))

AssignRange(n) ==
    /\ Ready
    /\ ArrayStep("assign_range", n, 0, 0, Source(n), assign_range(buf, vw, Source(n)))

NextArray ==
    \/ \E n \in 0..(MaxElems + 1) : Resize(n)
    \/ \E n \in 0..(MaxElems + 1) : ResizeValue(n, Written)
    \/ \E n \in 0..(MaxElems + 1) : ResizeDefaultInit(n)
    \/ PushBack(Written)
    \/ PopBack
    \/ \E p \in 0..MaxElems : Erase(p)
    \/ \E f \in 0..MaxElems, l \in 0..MaxElems : EraseRange(f, l)
    \/ \E p \in 0..MaxElems : Insert(p, Written)
    \/ \E p \in 0..MaxElems, n \in 0..2 : InsertCount(p, n, Written)
    \/ \E p \in 0..MaxElems, n \in 0..2 : InsertRange(p, n)
    \/ \E n \in 0..(MaxElems + 1) : AssignCount(n, Written)
    \/ \E n \in 0..(MaxElems + 1) : AssignRange(n)

SpecArray == InitArray /\ [][NextArray]_vars

\* the array before the last call
OldElements == Elements(lastAcc.pre, vw)

\* C13: for an array of k elements in a buffer large enough for n elements,
\* resize(n) makes size() return n; when n > k the elements [0, k) are
\* unchanged and [k, n) are zero after resize(n), v after resize(n, v), and the
\* bytes already in the buffer after resize(n, default_init).
C13_Resize ==
    (lastAcc.kind \in {"resize", "resize_value", "resize_default_init"}
        /\ lastAcc.a <= Capacity(vw)) =>
        /\ lastAcc.ok
        /\ array_size(buf, vw).ok /\ array_size(buf, vw).val = lastAcc.a
        /\ \A i \in 1..lastAcc.a :
              IF i <= Len(OldElements) THEN Elements(buf, vw)[i] = OldElements[i]
              ELSE CASE lastAcc.kind = "resize" -> Elements(buf, vw)[i] = 0
                     [] lastAcc.kind = "resize_value" -> Elements(buf, vw)[i] = lastAcc.val
                     [] OTHER -> Elements(buf, vw)[i]
                                 = Peek(lastAcc.pre, data_unchecked(vw) + i - 1)

C13_Witness ==
    /\ lastAcc.kind = "resize" /\ lastAcc.ok
    /\ Len(OldElements) = 1 /\ lastAcc.a = MaxElems
    /\ Peek(lastAcc.pre, data_unchecked(vw) + 2) # 0
    /\ Elements(buf, vw) = <<OldElements[1]>> \o Seq0(MaxElems - 1, LAMBDA i : 0)

\* the size the last call asks the array to have
NewSize ==
    CASE lastAcc.kind \in {"resize", "resize_value", "resize_default_init",
                           "assign_count", "assign_range"} -> lastAcc.a
      [] lastAcc.kind \in {"push_back", "insert"} -> Len(OldElements) + 1
      [] lastAcc.kind \in {"insert_count", "insert_range"} -> Len(OldElements) + lastAcc.b
      [] lastAcc.kind \in {"pop_back", "erase"} -> Len(OldElements) - 1
      [] lastAcc.kind = "erase_range" -> Len(OldElements) - (lastAcc.b - lastAcc.a)
      [] OTHER -> 0

\* C14: with size checks enabled a mutating operation of a dynamic array whose
\* resulting span sizeof(length) + new_size does not fit in [begin, end)
\* reports the violation before any byte of the buffer or beyond it has been
\* modified.
C14_NoWriteUnlessFits ==
    (lastAcc.kind # "none" /\ NewSize > Capacity(vw)) =>
        ~lastAcc.ok /\ buf = lastAcc.pre

\* C15: insert(begin() + p, v) into an array of k elements, p in [0, k], yields
\* k + 1 elements: [0, p) unchanged, v at p, the old [p, k) at [p + 1, k + 1);
\* a following erase(begin() + p) restores the k original elements.
C15_InsertErase ==
    /\ (lastAcc.kind = "insert" /\ Len(OldElements) + 1 <= Capacity(vw)) =>
          /\ lastAcc.ok
          /\ Elements(buf, vw) = SubSeq(OldElements, 1, lastAcc.a) \o <<lastAcc.val>>
                                 \o SubSeq(OldElements, lastAcc.a + 1, Len(OldElements))
    /\ (lastAcc.kind = "erase" /\ stack # <<>> /\ stack[1].kind = "insert"
           /\ stack[1].a = lastAcc.a) =>
          /\ lastAcc.ok
          /\ Elements(buf, vw) = Elements(stack[1].pre, vw)

C15_Witness ==
    /\ lastAcc.kind = "erase" /\ lastAcc.ok /\ lastAcc.a = 1
    /\ stack # <<>> /\ stack[1].kind = "insert" /\ stack[1].a = 1
    /\ Len(Elements(stack[1].pre, vw)) = 2
    /\ OldElements = <<Elements(buf, vw)[1], Written, Elements(buf, vw)[2]>>

\* C16: erase(first, last) removes exactly the elements of [first, last) for
\* every range with begin() <= first <= last <= end(): the size is reduced by
\* last - first, the elements before first are unchanged, those that followed
\* last sit from first on, and no contract violation is reported.
C16_EraseRange ==
    lastAcc.kind = "erase_range" =>
        /\ lastAcc.ok
        /\ Elements(buf, vw) = SubSeq(OldElements, 1, lastAcc.a)
                               \o SubSeq(OldElements, lastAcc.b + 1, Len(OldElements))

\* the bytes after the length prefix are those before the last call
ElementBytesKept ==
    /\ Len(buf) = Len(lastAcc.pre)
    /\ \A i \in (Wire.length + 1)..Len(buf) : buf[i] = lastAcc.pre[i]

\* C17: resize rewrites only the length prefix when it does not grow the
\* array, and so does pop_back: the bytes of the former elements stay in the
\* buffer, and resize(n, default_init) followed by resize(k, default_init)
\* restores the original k elements.
C17_ResizeKeepsBytes ==
    /\ (lastAcc.ok /\ (\/ lastAcc.kind \in {"resize_default_init", "pop_back"}
                       \/ /\ lastAcc.kind \in {"resize", "resize_value"}
                          /\ lastAcc.a <= Len(OldElements))) => ElementBytesKept
    /\ (/\ lastAcc.kind = "resize_default_init" /\ stack # <<>>
        /\ stack[1].kind = "resize_default_init"
        /\ stack[1].a < Len(Elements(stack[1].pre, vw))
        /\ lastAcc.a = Len(Elements(stack[1].pre, vw))) =>
          lastAcc.ok /\ buf = stack[1].pre

C17_Witness ==
    /\ lastAcc.kind = "resize_default_init" /\ lastAcc.ok /\ lastAcc.a = MaxElems
    /\ stack # <<>> /\ stack[1].kind = "resize_default_init" /\ stack[1].a = 1
    /\ Len(Elements(stack[1].pre, vw)) = MaxElems
    /\ Elements(buf, vw) = Seq0(MaxElems, LAMBDA i : 64 + i)

----------------------------------------------------------------------------
(* detail::get_primitive and detail::set_primitive as the preprocessor     *)
(* builds them.  A value of an n-byte integer type is its n base-256       *)
(* digits, most significant first (two's complement for signed types); its *)
(* object representation is the digits in the native byte order.  Builds:  *)
(* "bitcast" (SBEPP_HAS_BITCAST: copy / reverse_copy of the object bytes), *)
(* "byteswap" (memcpy with std::byteswap, the MSVC or GCC/clang intrinsics *)
(* or the shift-and-mask functions), and "bswap32" (memcpy with the GCC    *)
(* 4.3-4.7 / clang intrinsics where __builtin_bswap16 is missing).         *)

Builds == {"bitcast", "byteswap", "bswap32"}

Reverse(s) == [i \in 1..Len(s) |-> s[Len(s) + 1 - i]]

\* std::bit_cast / memcpy between a value and its bytes in memory
ObjectBytes(native, digits) == IF native = "big" THEN digits ELSE Reverse(digits)

\* byteswap(std::uint16_t) of the "bswap32" build: __builtin_bswap32(v) << 16,
\* an unsigned int, returned as std::uint16_t
bswap32_shifted(digits) ==
    With(Reverse(<<0, 0>> \o digits), LAMBDA swapped :
    With(SubSeq(swapped, 3, 4) \o <<0, 0>>, LAMBDA shifted :
      SubSeq(shifted, 3, 4)))

\* detail::byteswap
byteswap(build, digits) ==
    IF build = "bswap32" /\ Len(digits) = 2 THEN bswap32_shifted(digits)
    ELSE Reverse(digits)

\* the bytes set_primitive<E>(ptr, value) stores at ptr
set_primitive_built(build, native, E, digits) ==
    IF build = "bitcast"
    THEN IF E = native \/ Len(digits) = 1 THEN ObjectBytes(native, digits)
         ELSE Reverse(ObjectBytes(native, digits))
    ELSE IF E # native /\ Len(digits) # 1
         THEN ObjectBytes(native, byteswap(build, digits))
         ELSE ObjectBytes(native, digits)

\* the value get_primitive<T, E>(ptr) reads from the bytes at ptr
get_primitive_built(build, native, E, bytes) ==
    IF build = "bitcast"
    THEN IF E = native \/ Len(bytes) = 1 THEN ObjectBytes(native, bytes)
         ELSE ObjectBytes(native, Reverse(bytes))
    ELSE IF E = native \/ Len(bytes) = 1 THEN ObjectBytes(native, bytes)
         ELSE byteswap(build, ObjectBytes(native, bytes))

(* Specification SpecPrimitive: set_primitive then get_primitive of one    *)
(* value, for every build, native order, wire order and size.              *)

TypeSizes == {1, 2, 4, 8}

ByteOrders == {"little", "big"}

\* every single byte; for wider types the digits 0 and 255 in every
\* combination and two values whose digits all differ
ValuesOf(n) ==
    IF n = 1 THEN {<<x>> : x \in 0..(Pow256(1) - 1)}
    ELSE [1..n -> {0, Pow256(1) - 1}]
         \cup {Seq0(n, LAMBDA i : i), Seq0(n, LAMBDA i : Pow256(1) - i)}

InitPrimitive ==
    /\ sid \in Builds
    /\ \E native \in ByteOrders, E \in ByteOrders, n \in TypeSizes :
          /\ vw = [addr |-> Base, end |-> Base + n, native |-> native, order |-> E]
          /\ buf = Seq0(n, LAMBDA i : 0)
    /\ pc = "start"
    /\ lastAcc = NoLast
    /\ res = NoResult
    /\ stack = <<>>
    /\ it = NoIt
    /\ cur = Null
    /\ size = 0

\* set_primitive<E>(ptr, v)
SetPrimitive(v) ==
    /\ pc = "start"
    /\ buf' = set_primitive_built(sid, vw.native, vw.order, v)
    /\ lastAcc' = [kind |-> "set_primitive", val |-> v]
    /\ pc' = "set"
    /\ UNCHANGED <<sid, size, res, cur, vw, stack, it>>

\* get_primitive<T, E>(ptr)
GetPrimitive ==
    /\ pc = "set"
    /\ res' = [kind |-> "get_primitive",
               val |-> get_primitive_built(sid, vw.native, vw.order, buf)]
    /\ pc' = "got"
    /\ UNCHANGED <<buf, sid, size, cur, vw, lastAcc, stack, it>>

NextPrimitive ==
    \/ \E v \in ValuesOf(Len(buf)) : SetPrimitive(v)
    \/ GetPrimitive

SpecPrimitive == InitPrimitive /\ [][NextPrimitive]_vars

\* C18: for every integer type of 1, 2, 4 or 8 bytes, every value v and both
\* wire byte orders, set_primitive followed by get_primitive returns v, and the
\* bytes written are those of v in the wire order: most significant first for
\* big, least significant first for little.
C18_RoundTrip ==
    /\ pc \in {"set", "got"} =>
          buf = (IF vw.order = "big" THEN lastAcc.val ELSE Reverse(lastAcc.val))
    /\ pc = "got" => res.val = lastAcc.val

----------------------------------------------------------------------------
(* detail::optional_base<T, Derived> and the optional types built on it.   *)
(* An integer value is its base-256 digits, most significant first (two's  *)
(* complement for signed types); a floating-point value is [nan, num].  An *)
(* optional type is [prim, builtin]: builtin is TRUE for the NAME_opt_t    *)
(* classes of SBEPP_BUILT_IN_IMPL, whose Derived argument is NAME_t, and   *)
(* FALSE for a type a schema declares, whose Derived argument is the type  *)
(* itself.  A result is [wf, val]: wf is FALSE when the expression is      *)
(* ill-formed, so that the program does not compile.                       *)

Primitives == {"char", "int8", "uint8", "int16", "uint16", "int32", "uint32",
               "int64", "uint64", "float", "double"}

Prim(p) ==
    CASE p = "char" -> [kind |-> "char", bytes |-> 1]
      [] p = "int8" -> [kind |-> "signed", bytes |-> 1]
      [] p = "uint8" -> [kind |-> "unsigned", bytes |-> 1]
      [] p = "int16" -> [kind |-> "signed", bytes |-> 2]
      [] p = "uint16" -> [kind |-> "unsigned", bytes |-> 2]
      [] p = "int32" -> [kind |-> "signed", bytes |-> 4]
      [] p = "uint32" -> [kind |-> "unsigned", bytes |-> 4]
      [] p = "int64" -> [kind |-> "signed", bytes |-> 8]
      [] p = "uint64" -> [kind |-> "unsigned", bytes |-> 8]
      [] p = "float" -> [kind |-> "float", bytes |-> 4]
      [] p = "double" -> [kind |-> "float", bytes |-> 8]

OptTypes == [prim : Primitives, builtin : BOOLEAN]

IsFloat(t) == Prim(t.prim).kind = "float"

Float(nan, num) == [nan |-> nan, num |-> num]

\* the digits d, then zeros / then the digit e repeated
Digits(t, d, e) == <<d>> \o Seq0(Prim(t.prim).bytes - 1, LAMBDA i : e)

\* the NULL argument of SBEPP_BUILT_IN_IMPL: 0 for char, the minimum of a
\* signed type, the maximum of an unsigned type, quiet_NaN for float/double
null_value(t) ==
    CASE Prim(t.prim).kind = "char" -> <<0>>
      [] Prim(t.prim).kind = "signed" -> Digits(t, Pow256(1) \div 2, 0)
      [] Prim(t.prim).kind = "unsigned" -> Digits(t, Pow256(1) - 1, Pow256(1) - 1)
      [] OTHER -> Float(TRUE, 0)

\* values of the type: the null value, and values around the ends of its range
ValueSamples(t) ==
    CASE Prim(t.prim).kind = "char" -> {<<0>>, <<32>>, <<65>>, <<126>>}
      [] Prim(t.prim).kind = "float" ->
            {Float(TRUE, 0), Float(FALSE, -1), Float(FALSE, 0), Float(FALSE, 1)}
      [] OTHER ->
            {Digits(t, 0, 0), Reverse(Digits(t, 1, 0)),
             Digits(t, Pow256(1) \div 2 - 1, Pow256(1) - 1),
             Digits(t, Pow256(1) \div 2, 0),
             Reverse(Digits(t, Pow256(1) - 2, Pow256(1) - 1)),
             Digits(t, Pow256(1) - 1, Pow256(1) - 1)}

\* digits compared as unsigned numbers
RECURSIVE DigitsLess(_, _)
DigitsLess(a, b) ==
    IF a = <<>> THEN FALSE
    ELSE IF Head(a) # Head(b) THEN Head(a) < Head(b)
    ELSE DigitsLess(Tail(a), Tail(b))

\* the sign bit flipped: two's complement order as unsigned order
Biased(a) == <<(Head(a) + Pow256(1) \div 2) % Pow256(1)>> \o Tail(a)

\* the built-in operators of value_type
ValueEq(t, a, b) == IF IsFloat(t) THEN ~a.nan /\ ~b.nan /\ a.num = b.num ELSE a = b

ValueLess(t, a, b) ==
    CASE IsFloat(t) -> ~a.nan /\ ~b.nan /\ a.num < b.num
      [] Prim(t.prim).kind = "signed" -> DigitsLess(Biased(a), Biased(b))
      [] OTHER -> DigitsLess(a, b)

Wf(v) == [wf |-> TRUE, val |-> v]

IllFormed == [wf |-> FALSE, val |-> FALSE]

\* Derived::null_value() names a member: NAME_t, the Derived of the built-in
\* optional types, has min_value and max_value only
derived_null_value(t) == IF t.builtin THEN IllFormed ELSE Wf(null_value(t))

\* optional_base() = default, with val{Derived::null_value()}
optional_default(t) == derived_null_value(t)

\* optional_base(nullopt_t): delegates to the default constructor
optional_nullopt(t) == optional_default(t)

\* optional_base(value_type val)
optional_value(t, v) == Wf(v)

\* optional_base::has_value and operator bool: val != Derived::null_value()
has_value(t, v) ==
    IF derived_null_value(t).wf THEN Wf(~ValueEq(t, v, derived_null_value(t).val))
    ELSE IllFormed

\* optional_base::value_or
value_or(t, v, default_value) ==
    IF ~has_value(t, v).wf THEN IllFormed
    ELSE IF has_value(t, v).val THEN Wf(v) ELSE Wf(default_value)

\* operator== and operator!=: *lhs == *rhs, *lhs != *rhs
optional_eq(t, lhs, rhs) == Wf(ValueEq(t, lhs, rhs))

optional_ne(t, lhs, rhs) == Wf(~ValueEq(t, lhs, rhs))

\* operator<: rhs && (!lhs || (*lhs < *rhs))
optional_less(t, lhs, rhs) ==
    IF ~has_value(t, lhs).wf THEN IllFormed
    ELSE Wf(has_value(t, rhs).val
            /\ (~has_value(t, lhs).val \/ ValueLess(t, lhs, rhs)))

\* operator<=: !lhs || (rhs && (*lhs <= *rhs))
optional_less_eq(t, lhs, rhs) ==
    IF ~has_value(t, lhs).wf THEN IllFormed
    ELSE Wf(~has_value(t, lhs).val
            \/ (has_value(t, rhs).val
                /\ (ValueLess(t, lhs, rhs) \/ ValueEq(t, lhs, rhs))))

\* operator>: lhs && (!rhs || (*lhs > *rhs))
optional_greater(t, lhs, rhs) ==
    IF ~has_value(t, lhs).wf THEN IllFormed
    ELSE Wf(has_value(t, lhs).val
            /\ (~has_value(t, rhs).val \/ ValueLess(t, rhs, lhs)))

\* operator>=: !rhs || (lhs && (*lhs >= *rhs))
optional_greater_eq(t, lhs, rhs) ==
    IF ~has_value(t, lhs).wf THEN IllFormed
    ELSE Wf(~has_value(t, rhs).val
            \/ (has_value(t, lhs).val
                /\ (ValueLess(t, rhs, lhs) \/ ValueEq(t, lhs, rhs))))

\* operator<=> returning std::strong_ordering: *lhs <=> *rhs when both have a
\* value, lhs.has_value() <=> rhs.has_value() otherwise; for a floating-point
\* value_type *lhs <=> *rhs is a std::partial_ordering, which does not convert
three_way(t, lhs, rhs) ==
    IF ~has_value(t, lhs).wf \/ IsFloat(t) THEN IllFormed
    ELSE IF has_value(t, lhs).val /\ has_value(t, rhs).val
         THEN Wf(IF ValueLess(t, lhs, rhs) THEN "less"
                 ELSE IF ValueLess(t, rhs, lhs) THEN "greater" ELSE "equal")
         ELSE Wf(IF has_value(t, lhs).val = has_value(t, rhs).val THEN "equal"
                 ELSE IF has_value(t, rhs).val THEN "less" ELSE "greater")

----------------------------------------------------------------------------
(* Optional values: an object of one optional type is constructed, then    *)
(* asked for has_value(), value_or(d), or compared with a second object.   *)

Optional(how, r) == [kind |-> "optional", how |-> how, wf |-> r.wf, val |-> r.val]

InitOptional ==
    /\ sid \in OptTypes
    /\ pc = "start"
    /\ buf = <<>>
    /\ vw = NoView
    /\ lastAcc = NoLast
    /\ res = NoResult
    /\ stack = <<>>
    /\ it = NoIt
    /\ cur = Null
    /\ size = 0

Constructed(how, r) ==
    /\ it' = Optional(how, r)
    /\ pc' = IF r.wf THEN "made" ELSE "ill-formed"
    /\ UNCHANGED <<buf, sid, size, res, cur, vw, lastAcc, stack>>

\* T x;
DefaultConstruct ==
    /\ pc = "start"
    /\ Constructed("default", optional_default(sid))

\* T x{sbepp::nullopt};
NulloptConstruct ==
    /\ pc = "start"
    /\ Constructed("nullopt", optional_nullopt(sid))

\* T x{v};
ValueConstruct(v) ==
    /\ pc = "start"
    /\ Constructed("value", optional_value(sid, v))

Asked(r) ==
    /\ res' = r
    /\ pc' = IF r.wf THEN "asked" ELSE "ill-formed"
    /\ UNCHANGED <<buf, sid, size, cur, vw, lastAcc, stack, it>>

\* x.has_value()
HasValue ==
    /\ pc = "made"
    /\ Asked([kind |-> "has_value", wf |-> has_value(sid, it.val).wf,
              val |-> has_value(sid, it.val).val])

\* x.value_or(d)
ValueOr(d) ==
    /\ pc = "made"
    /\ Asked([kind |-> "value_or", wf |-> value_or(sid, it.val, d).wf,
              val |-> value_or(sid, it.val, d).val, default_value |-> d])

\* x OP T{v} for every comparison operator, in the build without
\* operator<=> and in the build with it
Compare(v) ==
    /\ pc = "made"
    /\ res' = [kind |-> "compare", rhs |-> v,
               eq |-> optional_eq(sid, it.val, v),
               ne |-> optional_ne(sid, it.val, v),
               lt |-> optional_less(sid, it.val, v),
               le |-> optional_less_eq(sid, it.val, v),
               gt |-> optional_greater(sid, it.val, v),
               ge |-> optional_greater_eq(sid, it.val, v),
               cmp |-> three_way(sid, it.val, v)]
    /\ pc' = "compared"
    /\ UNCHANGED <<buf, sid, size, cur, vw, lastAcc, stack, it>>

NextOptional ==
    \/ DefaultConstruct
    \/ NulloptConstruct
    \/ \E v \in ValueSamples(sid) : ValueConstruct(v)
    \/ HasValue
    \/ \E d \in ValueSamples(sid) : ValueOr(d)
    \/ \E v \in ValueSamples(sid) : Compare(v)

SpecOptional == InitOptional /\ [][NextOptional]_vars

\* has_value() could be asked and answers whether the stored value differs
\* from the null value; value_or(d) answers d for a stored null value
AnswersAsNull(t) ==
    /\ pc # "ill-formed"
    /\ pc = "asked" /\ res.kind = "has_value" =>
          (res.val = FALSE <=> it.val = null_value(t))
    /\ pc = "asked" /\ res.kind = "has_value" /\ it.how \in {"default", "nullopt"} =>
          res.val = FALSE
    /\ pc = "asked" /\ res.kind = "value_or" /\ it.val = null_value(t) =>
          res.val = res.default_value

\* C19: for every built-in optional type (char, int8..int64, uint8..uint64,
\* float and double with a NaN null value), has_value() is false exactly when
\* the stored value is the type's null_value(); a default-constructed optional
\* and one constructed from nullopt report has_value() == false, and
\* value_or(d) then returns d.
C19_BuiltInOptional == sid.builtin => AnswersAsNull(sid)

\* the rank of a stored value in the order the comparison is meant to be:
\* null first, then the values in the order of value_type
Before(t, a, b) ==
    /\ b # null_value(t)
    /\ a = null_value(t) \/ ValueLess(t, a, b)

\* C20: comparison of optional values is a total order with null as the
\* minimum: exactly one of a < b, a == b, a > b holds; null is less than every
\* non-null value and equal only to null; two non-null values compare as their
\* underlying values; a <= b is equivalent to a < b or a == b; and the
\* pre-C++20 operators give the same answers as the three-way comparison.
C20_OptionalOrder ==
    pc = "compared" =>
       /\ \A op \in {"eq", "ne", "lt", "le", "gt", "ge", "cmp"} : res[op].wf
       /\ Cardinality({op \in {"lt", "eq", "gt"} : res[op].val}) = 1
       /\ res.lt.val <=> Before(sid, it.val, res.rhs)
       /\ res.gt.val <=> Before(sid, res.rhs, it.val)
       /\ res.eq.val <=> it.val = res.rhs
       /\ res.le.val <=> (res.lt.val \/ res.eq.val)
       /\ res.ge.val <=> (res.gt.val \/ res.eq.val)
       /\ res.ne.val <=> ~res.eq.val
       /\ res.cmp.val = (IF res.lt.val THEN "less"
                         ELSE IF res.gt.val THEN "greater" ELSE "equal")

----------------------------------------------------------------------------
(* View-based get_value and set_value with size checks enabled.  The view  *)
(* is a byte_range [begin, end) whose two pointers lie in one allocation,  *)
(* or the default-constructed range of two null pointers.                  *)

ViewSpan == 3

ValueSizes == {1, 2}

\* the allocation holds every access the calls below can make
AllocLen == 2 * ViewSpan + 2

\* SBEPP_ASSERT with a handler: assertion_failed is called, and does not
\* return, exactly when the checked expression is false
assertion_failed(expr) == ~expr

InitView ==
    /\ buf = Seq0(AllocLen, LAMBDA i : i)
    /\ vw \in {DataView(Null, Null)}
              \cup {DataView(b, e) : b \in Base..(Base + ViewSpan),
                                     e \in Base..(Base + ViewSpan)}
    /\ pc = "start"
    /\ sid = "-"
    /\ lastAcc = NoLast
    /\ res = NoResult
    /\ stack = <<>>
    /\ it = NoIt
    /\ cur = Null
    /\ size = 0

Called == IF pc = "start" THEN "one" ELSE "two"

\* detail::get_value<T, U, E>(view, offset) with sizeof(U) = n
GetValue(offset, n) ==
    /\ pc \in {"start", "one"}
    /\ lastAcc' = [kind |-> "get_value", offset |-> offset, n |-> n, pre |-> buf,
                   hook |-> assertion_failed(SizeCheck(vw.addr, vw.end, offset, n))]
    /\ res' = [kind |-> "get_value", val |-> get_value(buf, vw, offset, n).val]
    /\ pc' = Called
    /\ UNCHANGED <<buf, sid, size, cur, vw, stack, it>>

\* detail::set_value<E>(view, offset, value) with sizeof(T) = n
SetValue(offset, n, value) ==
    /\ pc \in {"start", "one"}
    /\ lastAcc' = [kind |-> "set_value", offset |-> offset, n |-> n, pre |-> buf,
                   hook |-> assertion_failed(SizeCheck(vw.addr, vw.end, offset, n))]
    /\ buf' = set_value(buf, vw, offset, value, n).buf
    /\ res' = [kind |-> "set_value", val |-> value]
    /\ pc' = Called
    /\ UNCHANGED <<sid, size, cur, vw, stack, it>>

NextView ==
    \/ \E offset \in 0..ViewSpan, n \in ValueSizes : GetValue(offset, n)
    \/ \E offset \in 0..ViewSpan, n \in ValueSizes :
          SetValue(offset, n, Pow256(n) - 1)

SpecView == InitView /\ [][NextView]_vars

\* C21: with size checks enabled, a view-based get_value or set_value of an
\* s-byte value at offset o reports a contract violation exactly when the
\* view's begin pointer is null or o + s exceeds end - begin; a set_value that
\* reports a violation has written no byte.
C21_SizeCheckExact ==
    pc # "start" =>
       /\ lastAcc.hook <=>
             (vw.addr = Null \/ lastAcc.offset + lastAcc.n > vw.end - vw.addr)
       /\ lastAcc.hook => buf = lastAcc.pre

----------------------------------------------------------------------------
(* The two builds SBEPP_SIZE_CHECKS_ENABLED selects, run side by side on   *)
(* equal buffers with the same calls.  Every variable holds one value per  *)
(* build, indexed by SBEPP_SIZE_CHECKS_ENABLED.  The buffer is a dynamic   *)
(* array: a length prefix and room for BuildElems one-byte elements.       *)

BuildElems == 2

\* byte_range(begin, end): the end pointer is a member only when checks are
\* enabled, and end_ptr_tag yields nullptr otherwise
byte_range(checks, begin, end) == DataView(begin, IF checks THEN end ELSE Null)

end_ptr(checks, view) == IF checks THEN view.end ELSE Null

\* SBEPP_ASSERT(expr) is ((void)0) when checks are disabled: the handler is
\* called when checks are enabled and the call failed one of its checks
hook_called(checks, ok) == checks /\ ~ok

\* erase(first, last): without SBEPP_ASSERT the range is copied down and the
\* length reduced, whatever first and last are
erase_range_built(checks, b, d, first, last) ==
    IF checks THEN erase_range(b, d, first, last)
    ELSE resize_default_init(Copy(b, last, array_end(b, d).val, first), d,
                             ToLength(array_size(b, d).val - (last - first)))

InitBuild ==
    /\ \E k \in 0..BuildElems :
          buf = [c \in BOOLEAN |->
                   PrimitiveBytes(ByteOrder, k, Wire.length)
                   \o Seq0(BuildElems, LAMBDA i : i)]
    /\ vw = [c \in BOOLEAN |-> byte_range(c, Base, Base + Wire.length + BuildElems)]
    /\ cur = [c \in BOOLEAN |-> Base]
    /\ res = [c \in BOOLEAN |-> NoResult]
    /\ lastAcc = [kind |-> "none", inside |-> TRUE, hook |-> [c \in BOOLEAN |-> FALSE]]
    /\ pc = "start"
    /\ sid = "-"
    /\ stack = <<>>
    /\ it = NoIt
    /\ size = 0

\* one call made in both builds; r[c] is its outcome [ok, val, ptr, buf] in
\* build c, inside tells that every byte it accesses is in the buffer
BothBuilds(kind, inside, r) ==
    /\ lastAcc' = [kind |-> kind, inside |-> inside,
                   hook |-> [c \in BOOLEAN |-> hook_called(c, r[c].ok)]]
    /\ res' = [c \in BOOLEAN |-> [kind |-> kind, val |-> r[c].val]]
    /\ buf' = [c \in BOOLEAN |-> r[c].buf]
    /\ cur' = [c \in BOOLEAN |-> r[c].ptr]
    /\ pc' = IF ~inside \/ \E c \in BOOLEAN : ~r[c].ok THEN "stopped"
             ELSE IF pc = "start" THEN "one" ELSE "two"
    /\ UNCHANGED <<sid, size, vw, stack, it>>

ElementsEnd(c) == Wire.length + array_size(buf[c], vw[c]).val

BuildGetValue(offset, n) ==
    /\ Ready
    /\ BothBuilds("get_value", offset + n <= Len(buf[TRUE]),
          [c \in BOOLEAN |->
             With(get_value(buf[c], vw[c], offset, n), LAMBDA r :
                Acc(r.ok, cur[c], r.val, buf[c]))])

BuildSetValue(offset, n, value) ==
    /\ Ready
    /\ BothBuilds("set_value", offset + n <= Len(buf[TRUE]),
          [c \in BOOLEAN |->
             With(set_value(buf[c], vw[c], offset, value, n), LAMBDA r :
                Acc(r.ok, cur[c], value, r.buf))])

BuildCursorGetValue(offset, n) ==
    /\ Ready
    /\ BothBuilds("cursor::get_value",
          cur[TRUE] + offset + n <= EndOf(buf[TRUE]),
          [c \in BOOLEAN |-> cursor_get_value(buf[c], cur[c], vw[c], offset, n)])

BuildPushBack(value) ==
    /\ Ready
    /\ BothBuilds("push_back", ElementsEnd(TRUE) + 1 <= Len(buf[TRUE]),
          [c \in BOOLEAN |->
             With(push_back(buf[c], vw[c], value), LAMBDA r :
                Acc(r.ok, cur[c], 0, r.buf))])

\* erase(begin() + first, begin() + last) with first <= last <= size(), on an
\* array that lies in the buffer
BuildEraseRange(first, last) ==
    /\ Ready
    /\ last <= array_size(buf[TRUE], vw[TRUE]).val
    /\ ElementsEnd(TRUE) <= Len(buf[TRUE])
    /\ BothBuilds("erase", TRUE,
          [c \in BOOLEAN |->
             With(erase_range_built(c, buf[c], vw[c],
                                    data_unchecked(vw[c]) + first,
                                    data_unchecked(vw[c]) + last), LAMBDA r :
                Acc(r.ok, cur[c], 0, r.buf))])

NextBuild ==
    \/ \E offset \in 0..(Wire.length + BuildElems), n \in ValueSizes :
          BuildGetValue(offset, n)
    \/ \E offset \in 0..(Wire.length + BuildElems), n \in ValueSizes :
          BuildSetValue(offset, n, Pow256(n) - 1)
    \/ \E offset \in 0..1, n \in ValueSizes : BuildCursorGetValue(offset, n)
    \/ \E value \in {Pow256(1) - 1} : BuildPushBack(value)
    \/ \E last \in 0..BuildElems : \E first \in 0..last : BuildEraseRange(first, last)

SpecBuild == InitBuild /\ [][NextBuild]_vars

\* C22: size checking is a build-time switch that changes nothing but the
\* checks: with checks disabled no operation calls the failure hook and a
\* byte range stores no end pointer (end_ptr yields null), and for every
\* sequence of operations that stays inside the buffer the values returned,
\* the bytes written and the cursor positions are those of the
\* checks-enabled build.
C22_ChecksOnly ==
    /\ ~lastAcc.hook[FALSE]
    /\ vw[FALSE].end = Null /\ end_ptr(FALSE, vw[TRUE]) = Null
    /\ lastAcc.inside =>
          /\ ~lastAcc.hook[TRUE]
          /\ res[TRUE] = res[FALSE]
          /\ buf[TRUE] = buf[FALSE]
          /\ cur[TRUE] = cur[FALSE]

----------------------------------------------------------------------------
(* detail::static_array_ref<Byte, Value, N>: a field of N elements of      *)
(* sizeof(Value) = elem bytes at an offset of its level.  sid is           *)
(* [N, elem, offset]; vw is the level's view, of which only the pointers   *)
(* matter here.                                                            *)

MaxStatic == 2

ElementSizes == {1, 2, 4, 8}

\* static_array_ref::size
static_size(N) == N

\* static_array_ref::operator()(size_bytes_tag)
static_size_bytes(N, elem) == static_size(N)

\* static_array_ref::data: SBEPP_SIZE_CHECK(begin, end, 0, N)
static_data(a, N, elem) ==
    [ok |-> SizeCheck(a.addr, a.end, 0, N), val |-> a.addr]

\* static_array_ref::operator[]: data()[pos] on element_type*
static_subscript(a, N, elem, pos) ==
    [ok |-> pos < static_size(N) /\ static_data(a, N, elem).ok,
     val |-> static_data(a, N, elem).val + pos * elem]

\* static_array_ref::end: data() + size() on element_type*
static_end(a, N, elem) ==
    [ok |-> static_data(a, N, elem).ok,
     val |-> static_data(a, N, elem).val + static_size(N) * elem]

\* detail::get_static_field_view<Res>(view, offset)
get_static_field_view(view, offset) ==
    [ok |-> SizeCheck(view.addr, view.end, offset, 0),
     val |-> DataView(view.addr + offset, view.end)]

InitStatic ==
    /\ sid \in [N : 1..MaxStatic, elem : ElementSizes, offset : 0..1]
    /\ buf = Seq0(1 + MaxStatic * 8, LAMBDA i : i)
    /\ \E k \in 0..(sid.N * sid.elem) :
          vw = DataView(Base, Base + sid.offset + k)
    /\ cur = Base
    /\ pc = "start"
    /\ lastAcc = NoLast
    /\ res = NoResult
    /\ stack = <<>>
    /\ it = NoIt
    /\ size = 0

TheArray == get_static_field_view(vw, sid.offset).val

Answered(kind, r) ==
    /\ res' = [kind |-> kind, ok |-> r.ok, val |-> r.val]
    /\ pc' = "done"

\* sbepp::size_bytes(array)
StaticSizeBytes ==
    /\ pc = "start"
    /\ Answered("size_bytes", [ok |-> TRUE, val |-> static_size_bytes(sid.N, sid.elem)])
    /\ UNCHANGED <<buf, sid, size, cur, vw, lastAcc, stack, it>>

\* array.data()
StaticData ==
    /\ pc = "start"
    /\ Answered("data", static_data(TheArray, sid.N, sid.elem))
    /\ UNCHANGED <<buf, sid, size, cur, vw, lastAcc, stack, it>>

\* &array[pos]
StaticSubscript(pos) ==
    /\ pc = "start"
    /\ Answered("subscript", static_subscript(TheArray, sid.N, sid.elem, pos))
    /\ lastAcc' = [kind |-> "subscript", pos |-> pos]
    /\ UNCHANGED <<buf, sid, size, cur, vw, stack, it>>

\* array.end()
StaticEnd ==
    /\ pc = "start"
    /\ Answered("end", static_end(TheArray, sid.N, sid.elem))
    /\ UNCHANGED <<buf, sid, size, cur, vw, lastAcc, stack, it>>

\* m.array(c): cursor::get_static_field_view
StaticCursorRead ==
    /\ pc = "start"
    /\ \E a \in {cursor_get_static_field_view(buf, cur, vw, sid.offset,
                                              static_size_bytes(sid.N, sid.elem))} :
          /\ Answered("read", a)
          /\ cur' = a.ptr
    /\ UNCHANGED <<buf, sid, size, vw, lastAcc, stack, it>>

\* m.array(cursor_ops::skip(c))
StaticCursorSkip ==
    /\ pc = "start"
    /\ \E a \in {skip_get_static_field_view(buf, cur, vw, sid.offset,
                                            static_size_bytes(sid.N, sid.elem))} :
          /\ Answered("skip", a)
          /\ cur' = a.ptr
    /\ UNCHANGED <<buf, sid, size, vw, lastAcc, stack, it>>

NextStatic ==
    \/ StaticSizeBytes
    \/ StaticData
    \/ \E pos \in 0..MaxStatic : StaticSubscript(pos)
    \/ StaticEnd
    \/ StaticCursorRead
    \/ StaticCursorSkip

SpecStatic == InitStatic /\ [][NextStatic]_vars

\* C23: a static array of N elements occupies exactly N * element_size bytes:
\* size_bytes(array) equals N * sizeof(element), the bounds check made by
\* data() covers that many bytes, and a cursor that reads or skips the array
\* advances by that many bytes, for every element size of the schema.
C23_StaticArrayBytes ==
    pc = "done" =>
       /\ res.kind = "size_bytes" => res.val = sid.N * sid.elem
       /\ res.kind = "data" =>
             (res.ok <=> sid.N * sid.elem <= vw.end - TheArray.addr)
       /\ res.kind \in {"read", "skip"} /\ res.ok =>
             cur = Base + sid.offset + sid.N * sid.elem

----------------------------------------------------------------------------
(* Several readers over one buffer.  Each reader has its own cursor and    *)
(* iterator and makes the same read-only calls on message S2, in program   *)
(* order; the readers' calls interleave in every way.  cur[r] is reader    *)
(* r's state: the number of calls made, its cursor, the group view it got, *)
(* its iterator and the results it was given.                              *)

Readers == {1, 2}

ProgramLength == 8

NewReader == [at |-> 0, ptr |-> Null, grp |-> Null, itr |-> NoIt, log |-> <<>>]

Logged(rd, b, r) ==
    [rd |-> [rd EXCEPT !.at = rd.at + 1, !.log = Append(rd.log, r)], buf |-> b]

\* the call reader rd makes next on the message view m over buffer b: the
\* reader afterwards and the buffer afterwards
ReaderCall(b, m, rd) ==
    CASE rd.at = 0 ->   \* sbepp::get_header(m).blockLength()
            Logged(rd, b, [ok |-> get_header(b, m, Wire.messageHeader),
                           val |-> HeaderField(b, m, Wire.blockLengthOffset).val])
      [] rd.at = 1 ->   \* m.field1()
            Logged(rd, b, get_value(b, m, AbsoluteOffset(m.lvl, 1),
                                    Level(m.lvl).fields[1].size))
      [] rd.at = 2 ->   \* c = init_cursor(m); m.field1(c)
            With(cursor_get_value(b, init_cursor(b, m), m, RelativeOffset(m.lvl, 1),
                                  Level(m.lvl).fields[1].size), LAMBDA a :
               Logged([rd EXCEPT !.ptr = a.ptr], a.buf, [ok |-> a.ok, val |-> a.val]))
      [] rd.at = 3 ->   \* g = m.group(c); g.size()
            With(cursor_get_first_group_view(b, rd.ptr, m, Level(m.lvl).groups[1]),
                 LAMBDA a :
               Logged([rd EXCEPT !.ptr = a.ptr, !.grp = a.val], a.buf,
                      [ok |-> a.ok,
                       val |-> HeaderField(b, GroupView(a.val, m.end,
                                                        Level(m.lvl).groups[1]),
                                           Wire.numInGroupOffset).val]))
      [] rd.at = 4 ->   \* it = g.begin()
            With(forward_begin(b, GroupView(rd.grp, m.end, Level(m.lvl).groups[1])),
                 LAMBDA i :
               Logged([rd EXCEPT !.itr = i], b, [ok |-> i.ok, val |-> i.ptr]))
      [] rd.at = 5 ->   \* e = *it; ++it
            With(forward_increment(b, rd.itr, Level(m.lvl).groups[1]), LAMBDA i :
               Logged([rd EXCEPT !.itr = i], b,
                      [ok |-> i.ok,
                       val |-> <<forward_deref(rd.itr, Level(m.lvl).groups[1]).addr,
                                 i.ptr, i.index>>]))
      [] rd.at = 6 ->   \* sbepp::size_bytes(m)
            Logged(rd, b, size_bytes(b, m.lvl))
      [] OTHER ->       \* sbepp::size_bytes_checked(m, size)
            Logged(rd, b, size_bytes_checked(b, m, Len(b)))

\* reader rd running alone on buffer b for k calls
RECURSIVE Alone(_, _, _, _)
Alone(b, m, rd, k) ==
    IF k = 0 THEN rd
    ELSE With(ReaderCall(b, m, rd), LAMBDA r : Alone(r.buf, m, r.rd, k - 1))

InitReaders ==
    /\ sid = "S2"
    /\ buf \in FullBuffers(sid)
    /\ vw = MessageView(buf, sid)
    /\ cur = [r \in Readers |-> NewReader]
    /\ lastAcc = [kind |-> "none", pre |-> buf, reader |-> 0, switches |-> 0]
    /\ pc = "reading"
    /\ res = NoResult
    /\ stack = <<>>
    /\ it = NoIt
    /\ size = 0

ReaderStep(r) ==
    /\ cur[r].at < ProgramLength
    /\ \E c \in {ReaderCall(buf, vw, cur[r])} :
          /\ cur' = [cur EXCEPT ![r] = c.rd]
          /\ buf' = c.buf
    /\ lastAcc' = [lastAcc EXCEPT !.kind = "call", !.reader = r,
                      !.switches = IF lastAcc.reader \notin {0, r}
                                   THEN lastAcc.switches + 1 ELSE lastAcc.switches]
    /\ UNCHANGED <<sid, pc, size, res, vw, stack, it>>

NextReaders == \E r \in Readers : ReaderStep(r)

SpecReaders == InitReaders /\ [][NextReaders]_vars

\* C24: no read-only operation (view-based and cursor-based get_value,
\* size(), size_bytes, iterator increment and dereference, get_header,
\* size_bytes_checked) writes to the buffer, and in every interleaving of the
\* calls of several readers, each with its own cursor, every reader is given
\* the results it is given when it runs alone.
C24_ReadersIndependent ==
    lastAcc.kind = "call" =>
       /\ buf = lastAcc.pre
       /\ \A r \in Readers :
             cur[r] = Alone(lastAcc.pre, vw, NewReader, cur[r].at)

\* both readers have finished after their calls alternated, and the group
\* they iterated has entries
C24_Witness ==
    /\ lastAcc.kind = "call"
    /\ \A r \in Readers : cur[r].at = ProgramLength /\ cur[r].itr.index = 1
    /\ lastAcc.switches >= ProgramLength

----------------------------------------------------------------------------
(* on_group of the size-validating visitor, called as visit_children of    *)
(* message S2 calls it for the nested group S2.ng: the cursor is past the  *)
(* group's header, the budget is `size`, and the visitor arrives with a    *)
(* group block length from its caller's context.                           *)

OuterContexts == {0, 7}

TheGroup == cursor_get_first_group_view(buf, init_cursor(buf, MessageView(buf, sid)),
                                        MessageView(buf, sid), Level(sid).groups[1])

InitGroupVisit ==
    /\ sid = "S2"
    /\ buf \in Buffers(sid)
    /\ size \in 0..Len(buf)
    /\ vw = GroupView(TheGroup.val, EndOf(buf), Level(sid).groups[1])
    /\ cur = TheGroup.ptr
    /\ \E x \in OuterContexts : lastAcc = [kind |-> "none", outer |-> x]
    /\ pc = "start"
    /\ res = NoResult
    /\ stack = <<>>
    /\ it = NoIt

\* visitor.on_group(g, c, tag)
OnGroup ==
    /\ pc = "start"
    /\ res' = on_group(buf, vw,
                       [Visitor(size, cur) EXCEPT !.group_block_length = lastAcc.outer])
    /\ pc' = "visited"
    /\ UNCHANGED <<buf, sid, size, cur, vw, lastAcc, stack, it>>

NextGroupVisit == OnGroup

SpecGroupVisit == InitGroupVisit /\ [][NextGroupVisit]_vars

\* the entries of the group: each is charged the blockLength of the group's
\* own header, and its sub-group's entries that of the sub-group's header
EntriesCharge(b, g) == NestedSizeBytes(b, g).val

\* C25: in size_bytes_checked every entry is charged the blockLength of its
\* directly enclosing group: on_group saves the current group block length,
\* installs its own header's blockLength for its entries and restores the
\* saved value on return, so after a nested group inside an entry has been
\* visited the remaining entries of the outer group are again validated
\* against the outer group's blockLength.
C25_EnclosingBlockLength ==
    pc = "visited" =>
       /\ res.ok
       /\ res.valid <=> size >= EntriesCharge(buf, vw)
       /\ res.valid =>
             /\ res.group_block_length = lastAcc.outer
             /\ size - res.size = EntriesCharge(buf, vw)

\* a group of two entries whose first entry has a sub-group with entries of
\* another blockLength, visited with enough budget
C25_Witness ==
    /\ pc = "visited"
    /\ res.valid
    /\ HeaderField(buf, vw, Wire.numInGroupOffset).val = 2
    /\ HeaderField(buf, vw, Wire.blockLengthOffset).val = 3
    /\ get_primitive(buf, ByteOrder, vw.addr + Wire.dimension + 3, Wire.word) = 1
    /\ get_primitive(buf, ByteOrder,
                     vw.addr + Wire.dimension + 3 + Wire.numInGroupOffset, Wire.word) = 2
    /\ lastAcc.outer = 7
    /\ size - res.size = EntriesCharge(buf, vw)

----------------------------------------------------------------------------
(* size_bytes_checked on a received prefix: the buffer holds the first     *)
(* `size` bytes of an encoded message and the view is made from the        *)
(* pointer and that size, so an access at an offset >= size is an access   *)
(* outside the view and the buffer and makes the result's ok FALSE.        *)

InitPrefix ==
    /\ sid \in Schemas
    /\ \E full \in Buffers(sid) : \E n \in 0..Len(full) :
          /\ buf = SubSeq(full, 1, n)
          /\ size = n
    /\ vw = MessageView(buf, sid)
    /\ pc = "start"
    /\ res = NoResult
    /\ cur = Null
    /\ lastAcc = NoLast
    /\ stack = <<>>
    /\ it = NoIt

\* sbepp::size_bytes_checked(m, size) with m{ptr, size}
PrefixChecked ==
    /\ pc = "start"
    /\ res' = size_bytes_checked(buf, vw, size)
    /\ pc' = "checked"
    /\ UNCHANGED <<buf, sid, size, cur, vw, lastAcc, stack, it>>

NextPrefix == PrefixChecked

SpecPrefix == InitPrefix /\ [][NextPrefix]_vars

\* C26: size_bytes_checked(view, size) never reads a buffer byte at an offset
\* >= size from the view's address: every header field, numInGroup,
\* blockLength and data length prefix is read only after the remaining budget
\* has been shown to cover the bytes being read.
C26_ReadsInsideSize == pc = "checked" => res.ok

----------------------------------------------------------------------------
(* Specification SpecBudget: the budget of size_bytes_checked_visitor, one *)
(* validate_and_subtract call at a time.  size is the size argument, res   *)
(* the visitor, stack the calls made so far (the amount asked and whether  *)
(* it was subtracted), vw the size_bytes_checked_result once returned.     *)

MaxBudget == 6

MaxAmount == 4

MaxCalls == 4

InitBudget ==
    /\ size \in 0..MaxBudget
    /\ res = Visitor(size, Null)
    /\ stack = <<>>
    /\ pc = "visiting"
    /\ vw = NoView
    /\ buf = <<>>
    /\ sid = "-"
    /\ cur = Null
    /\ lastAcc = NoLast
    /\ it = NoIt

\* a visitor callback calls validate_and_subtract(n)
ValidateAndSubtract ==
    /\ pc = "visiting"
    /\ Len(stack) < MaxCalls
    /\ \E n \in 0..MaxAmount :
          /\ res' = validate_and_subtract(res, n)
          /\ stack' = Append(stack, [n |-> n, subtracted |-> res.size >= n])
    /\ UNCHANGED <<buf, sid, pc, size, cur, vw, lastAcc, it>>

\* the tail of size_bytes_checked: {true, size - visitor.get_size()} or {}
ReturnResult ==
    /\ pc = "visiting"
    /\ vw' = IF res.valid THEN [valid |-> TRUE, size |-> size - res.size]
             ELSE [valid |-> FALSE, size |-> 0]
    /\ pc' = "returned"
    /\ UNCHANGED <<buf, sid, size, res, cur, lastAcc, stack, it>>

NextBudget == ValidateAndSubtract \/ ReturnResult

SpecBudget == InitBudget /\ [][NextBudget]_vars

RECURSIVE Subtracted(_)
Subtracted(calls) ==
    IF calls = <<>> THEN 0
    ELSE (IF calls[1].subtracted THEN calls[1].n ELSE 0) + Subtracted(Tail(calls))

\* C27: the valid flag is monotone and the budget never wraps: once a call of
\* validate_and_subtract has set valid to false no later call sets it to true,
\* the remaining budget never exceeds the initial size (nor falls below 0),
\* and a result with valid = true has a size that is at most the size
\* argument and equals the sum of all amounts subtracted.
C27_BudgetMonotone ==
    /\ [][~res.valid => ~res'.valid]_vars
    /\ [](res.size >= 0 /\ res.size <= size)
    /\ []((pc = "returned" /\ vw.valid) =>
            (vw.size <= size /\ vw.size = Subtracted(stack)))

\* a call that fits the budget was subtracted after valid had become false,
\* and the result returned is the invalid one
C27_Witness ==
    /\ pc = "returned"
    /\ ~vw.valid
    /\ Len(stack) = 3
    /\ stack[1].subtracted /\ stack[1].n > 0
    /\ ~stack[2].subtracted
    /\ stack[3].subtracted /\ stack[3].n > 0
    /\ res.size = size - stack[1].n - stack[3].n
----------------------------------------------------------------------------
(* Specification SpecVisitGroup: operator()(visit_children_tag) of a flat  *)
(* and of a nested group, driven by a visitor whose on_entry may or may    *)
(* not read the entry through the cursor and returns either answer.  vw is *)
(* the group, cur the cursor, it the input_iterator of cursor_range(c),    *)
(* stack the on_entry calls made (index, entry address, answer), res the   *)
(* value returned.                                                         *)

\* flat_group_base::cursor_range / nested_group_base::cursor_range
cursor_range(b, g) ==
    [block_length |-> HeaderField(b, g, Wire.blockLengthOffset).val,
     start_pos |-> 0,
     length |-> HeaderField(b, g, Wire.numInGroupOffset).val]

\* cursor_range::begin
input_begin(r) == [kind |-> "input", index |-> r.start_pos, block_length |-> r.block_length]

\* cursor_range::end
input_end(r) ==
    [kind |-> "input", index |-> (r.start_pos + r.length) % Pow256(Wire.word),
     block_length |-> r.block_length]

\* mutant: the entry is looked up by the iterator's index
input_deref_indexed(i, ptr, g) ==
    EntryView(ptr + i.index * i.block_length, g.end, g.grp, i.block_length)

\* input_iterator::operator*
input_deref(i, ptr, g) == EntryView(ptr, g.end, g.grp, i.block_length)

\* input_iterator::operator++
input_increment(i) == [i EXCEPT !.index = (@ + 1) % Pow256(Wire.word)]

\* mutant: the answer of on_entry is ignored
entry_visited_ignoring_stop(i, r) ==
    [returned |-> FALSE, value |-> FALSE, it |-> input_increment(i)]

\* the body of the loop of operator()(visit_children_tag): on_entry answered r
entry_visited(i, r) ==
    IF r THEN [returned |-> TRUE, value |-> TRUE, it |-> i]
    ELSE [returned |-> FALSE, value |-> FALSE, it |-> input_increment(i)]

FirstGroup(b, s) ==
    cursor_get_first_group_view(b, init_cursor(b, MessageView(b, s)),
                                MessageView(b, s), Level(s).groups[1])

InitVisitGroup ==
    /\ sid \in {"S1", "S2"}
    /\ buf \in Buffers(sid)
    /\ vw = GroupView(FirstGroup(buf, sid).val, EndOf(buf), Level(sid).groups[1])
    /\ cur = FirstGroup(buf, sid).ptr
    /\ it = NoIt
    /\ pc = "start"
    /\ stack = <<>>
    /\ res = NoResult
    /\ size = 0
    /\ lastAcc = NoLast

\* for(const auto entry : this->cursor_range(c)): the range's begin()
VisitChildren ==
    /\ pc = "start"
    /\ it' = input_begin(cursor_range(buf, vw))
    /\ pc' = "loop"
    /\ UNCHANGED <<buf, sid, size, res, cur, vw, lastAcc, stack>>

\* the iterator differs from end(): v.on_entry(entry, c) is called, reads the
\* entry through the cursor or leaves the cursor alone, and answers r
OnEntry ==
    /\ pc = "loop"
    /\ it.index # input_end(cursor_range(buf, vw)).index
    /\ \E r \in BOOLEAN, reads \in BOOLEAN :
          /\ stack' = Append(stack, [index |-> it.index, addr |-> cur, r |-> r])
          /\ cur' = IF reads
                    THEN cur + LevelSizeBytes(buf, input_deref(it, cur, vw)).val
                    ELSE cur
          /\ it' = entry_visited(it, r).it
          /\ pc' = IF entry_visited(it, r).returned THEN "returned" ELSE "loop"
          /\ res' = IF entry_visited(it, r).returned
                    THEN [kind |-> "visit", value |-> entry_visited(it, r).value]
                    ELSE res
    /\ UNCHANGED <<buf, sid, size, vw, lastAcc>>

\* the iterator equals end(): return false
LoopEnd ==
    /\ pc = "loop"
    /\ it.index = input_end(cursor_range(buf, vw)).index
    /\ res' = [kind |-> "visit", value |-> FALSE]
    /\ pc' = "returned"
    /\ UNCHANGED <<buf, sid, size, cur, vw, lastAcc, stack, it>>

NextVisitGroup == VisitChildren \/ OnEntry \/ LoopEnd

SpecVisitGroup == InitVisitGroup /\ [][NextVisitGroup]_vars

NumInGroup == HeaderField(buf, vw, Wire.numInGroupOffset).val

\* C28: visit_children on a flat or nested group calls on_entry once per entry
\* in increasing index order and at most numInGroup times; it stops at the
\* first entry for which on_entry returns true and then returns true; it
\* returns false when every on_entry call returned false, in particular for
\* an empty group, for which no callback is made.
C28_GroupVisit ==
    /\ Len(stack) <= NumInGroup
    /\ \A k \in 1..Len(stack) : stack[k].index = k - 1
    /\ \A k \in 1..(Len(stack) - 1) : ~stack[k].r
    /\ (stack # <<>> /\ stack[Len(stack)].r) => (pc = "returned" /\ res.value)
    /\ pc = "returned" =>
          /\ res.value <=> (stack # <<>> /\ stack[Len(stack)].r)
          /\ ~res.value => Len(stack) = NumInGroup
          /\ NumInGroup = 0 => (stack = <<>> /\ ~res.value)

\* a nested group of two entries: the first on_entry read its entry and
\* answered false, the second answered true, and true was returned
C28_Witness ==
    /\ pc = "returned"
    /\ res.value
    /\ IsNested(vw.grp)
    /\ NumInGroup = MaxNum
    /\ Len(stack) = 2
    /\ stack[2].addr > stack[1].addr

----------------------------------------------------------------------------
(* Specification SpecIterOrder: comparison, difference, increment and      *)
(* decrement of detail::random_access_iterator on the flat groups of       *)
(* SpecIter and on groups whose blockLength is 0.  size counts the entries *)
(* a loop from begin() to end() has visited and lastAcc holds the pointers *)
(* it dereferenced.                                                        *)

\* random_access_iterator::operator++
ra_increment(dim, i) ==
    [ok |-> SizeCheck(i.ptr, i.end, 0, i.block_length),
     it |-> RaIt(i.ptr + i.block_length, i.block_length, ToSize(dim, i.index + 1), i.end)]

\* random_access_iterator::operator--
ra_decrement(dim, i) ==
    RaIt(i.ptr - i.block_length, i.block_length, ToSize(dim, i.index - 1), i.end)

\* random_access_iterator::operator-(const random_access_iterator&): the
\* difference of the promoted indexes, converted to difference_type
ra_minus(dim, lhs, rhs) == ToDifference(dim, lhs.index - rhs.index)

\* operator== and operator!= of random_access_iterator
ra_equal(lhs, rhs) == lhs.index = rhs.index

ra_not_equal(lhs, rhs) == lhs.index # rhs.index

\* operator< of random_access_iterator
ra_less(lhs, rhs) == lhs.index < rhs.index

\* flat_group_base::end, for a dimension whose size_bytes fits the model's integers
ra_end(b, g, dim) ==
    With(flat_end(b, g, dim, "wide"), LAMBDA e :
        RaIt(e.ptr[1] + Word * e.ptr[2], e.block_length, e.index, e.end))

\* flat_group_base::back
flat_back(b, g, dim) == ra_deref(ra_decrement(dim, ra_end(b, g, dim)), g.grp)

InitIterOrder ==
    /\ sid = "F8"
    /\ buf \in {IterBuffer(bl, n) : bl \in 0..MaxBlock, n \in IterSizes}
    /\ vw = IterGroup(buf)
    /\ pc = "start"
    /\ it = NoIt
    /\ res = NoResult
    /\ size = 0
    /\ lastAcc = {}
    /\ cur = Null
    /\ stack = <<>>

\* begin() != end(), end() - begin(), begin() < end()
CompareEnds ==
    /\ pc = "start"
    /\ res' = [kind |-> "ends",
               ne |-> ra_not_equal(flat_begin(buf, vw, Dim8), ra_end(buf, vw, Dim8)),
               diff |-> ra_minus(Dim8, ra_end(buf, vw, Dim8), flat_begin(buf, vw, Dim8)),
               lt |-> ra_less(flat_begin(buf, vw, Dim8), ra_end(buf, vw, Dim8))]
    /\ pc' = "done"
    /\ UNCHANGED <<buf, sid, size, cur, vw, lastAcc, stack, it>>

\* g.back()
Back ==
    /\ pc = "start"
    /\ flat_size(buf, vw, Dim8) # 0
    /\ res' = [kind |-> "back", entry |-> flat_back(buf, vw, Dim8)]
    /\ pc' = "done"
    /\ UNCHANGED <<buf, sid, size, cur, vw, lastAcc, stack, it>>

\* for(it = g.begin(); ...
LoopBegin ==
    /\ pc = "start"
    /\ \E i \in {flat_begin(buf, vw, Dim8)} :
          it' = [kind |-> "ra", ptr |-> i.ptr, block_length |-> i.block_length,
                 index |-> i.index, end |-> i.end]
    /\ pc' = "loop"
    /\ UNCHANGED <<buf, sid, size, res, cur, vw, lastAcc, stack>>

\* ... it != g.end(); ++it) visit(*it)
LoopStep ==
    /\ pc = "loop"
    /\ ra_not_equal(it, ra_end(buf, vw, Dim8))
    /\ ra_increment(Dim8, it).ok
    /\ lastAcc' = lastAcc \cup {ra_deref(it, vw.grp).addr}
    /\ size' = size + 1
    /\ \E i \in {ra_increment(Dim8, it).it} :
          it' = [it EXCEPT !.ptr = i.ptr, !.index = i.index]
    /\ UNCHANGED <<buf, sid, pc, res, cur, vw, stack>>

\* the loop's condition is false
LoopExit ==
    /\ pc = "loop"
    /\ ra_equal(it, ra_end(buf, vw, Dim8))
    /\ pc' = "looped"
    /\ UNCHANGED <<buf, sid, size, res, cur, vw, lastAcc, stack, it>>

\* (it + n) - it, for an iterator of the loop and a difference_type n that
\* keeps the index within [0, size()]
PlusMinus(n) ==
    /\ pc = "loop"
    /\ res.kind = "none"
    /\ InRange(it.index + n)
    /\ res' = [kind |-> "plusminus", n |-> n,
               diff |-> ra_minus(Dim8, ra_plus(Dim8, it, n), it)]
    /\ UNCHANGED <<buf, sid, pc, size, cur, vw, lastAcc, stack, it>>

NextIterOrder ==
    \/ CompareEnds
    \/ Back
    \/ LoopBegin
    \/ LoopStep
    \/ LoopExit
    \/ \E n \in Steps : PlusMinus(n)

SpecIterOrder == InitIterOrder /\ [][NextIterOrder]_vars

\* C29: comparison and difference of random-access iterators depend on the
\* index only: for a flat group with blockLength 0 and n > 0 entries,
\* begin() != end(), end() - begin() = n, begin() < end(), and the loop from
\* begin() to end() visits exactly n entries, all at the same pointer; for
\* any blockLength (it + n) - it = n, and *(--end()) is the entry at index
\* size() - 1.
C29_IndexOnly ==
    LET n  == flat_size(buf, vw, Dim8)
        bl == flat_block_length(buf, vw, Dim8)
    IN  /\ (res.kind = "ends" /\ bl = 0 /\ n > 0) =>
              res.ne /\ res.diff = n /\ res.lt
        /\ (pc = "looped" /\ bl = 0 /\ n > 0) =>
              size = n /\ lastAcc = {vw.addr + Dim8.size}
        /\ res.kind = "plusminus" => res.diff = res.n
        /\ res.kind = "back" =>
              res.entry = EntryView(vw.addr + Dim8.size + (n - 1) * bl, vw.end, vw.grp, bl)

----------------------------------------------------------------------------
(* Specification SpecNested: size_bytes() and forward iteration of the     *)
(* nested group of an encoded S2 message.  lastAcc holds the message       *)
(* instance the buffer was encoded from, vw the group, it the iterator,    *)
(* stack one record per increment: the entry dereferenced before it and    *)
(* the pointer after it.                                                   *)

InitNested ==
    /\ sid = "S2"
    /\ lastAcc \in Instances(sid)
    /\ buf = EncMessage(sid, lastAcc)
    /\ vw = GroupView(MemberAddr(buf, MessageView(buf, sid), 1).val, EndOf(buf),
                      Level(sid).groups[1])
    /\ pc = "start"
    /\ res = NoResult
    /\ it = NoIt
    /\ stack = <<>>
    /\ size = 0
    /\ cur = Null

\* sbepp::size_bytes(g)
NestedSize ==
    /\ pc = "start"
    /\ \E s \in {NestedSizeBytes(buf, vw)} :
          res' = [kind |-> "nested_size", ok |-> s.ok, val |-> s.val]
    /\ pc' = "sized"
    /\ UNCHANGED <<buf, sid, size, cur, vw, lastAcc, stack, it>>

\* it = g.begin()
NestedBegin ==
    /\ pc = "sized"
    /\ \E i \in {forward_begin(buf, vw)} :
          it' = [kind |-> "fwd", ok |-> i.ok, ptr |-> i.ptr, index |-> i.index,
                 block_length |-> i.block_length, end |-> i.end]
    /\ pc' = "iterate"
    /\ UNCHANGED <<buf, sid, size, res, cur, vw, lastAcc, stack>>

\* it != g.end(): entry = *it; ++it
NestedIncrement ==
    /\ pc = "iterate"
    /\ ~iterator_equal(it, forward_end(buf, vw))
    /\ \E i \in {forward_increment(buf, it, vw.grp)} :
          /\ it' = [it EXCEPT !.ok = i.ok, !.ptr = i.ptr, !.index = i.index]
          /\ stack' = Append(stack, [entry |-> forward_deref(it, vw.grp), after |-> i.ptr])
          /\ pc' = IF i.ok THEN "iterate" ELSE "fault"
    /\ UNCHANGED <<buf, sid, size, res, cur, vw, lastAcc>>

\* it == g.end()
NestedEnd ==
    /\ pc = "iterate"
    /\ iterator_equal(it, forward_end(buf, vw))
    /\ pc' = "iterated"
    /\ UNCHANGED <<buf, sid, size, res, cur, vw, lastAcc, stack, it>>

NextNested == NestedSize \/ NestedBegin \/ NestedIncrement \/ NestedEnd

SpecNested == InitNested /\ [][NextNested]_vars

\* the entries the group was encoded from, and the bytes each one took
EncodedEntries == lastAcc.groups[1].entries

EncodedSize(i) == Len(EncLevel(Level(sid).groups[1], EncodedEntries[i]))

RECURSIVE EncodedSizes(_)
EncodedSizes(i) == IF i = 0 THEN 0 ELSE EncodedSizes(i - 1) + EncodedSize(i)

\* C30: a nested group's size_bytes() is the dimension header size plus the
\* sum over its numInGroup entries of each entry's own size_bytes; each
\* forward-iterator increment moves the pointer by the size_bytes of the
\* entry just left (its block plus its nested groups and data), not by the
\* header's blockLength, so the i-th dereference yields the entry that starts
\* where entry i - 1 ended.
C30_NestedSize ==
    /\ pc # "fault"
    /\ res.kind = "nested_size" =>
          /\ res.ok
          /\ res.val = Wire.dimension + EncodedSizes(Len(EncodedEntries))
    /\ \A i \in 1..Len(stack) :
          /\ stack[i].entry.addr = vw.addr + Wire.dimension + EncodedSizes(i - 1)
          /\ stack[i].entry.block_length = lastAcc.groups[1].bl
          /\ stack[i].after - stack[i].entry.addr = EncodedSize(i)
          /\ stack[i].after - stack[i].entry.addr
                = LevelSizeBytes(buf, stack[i].entry).val
          /\ i > 1 => stack[i].entry.addr = stack[i - 1].after
    /\ pc = "iterated" => Len(stack) = Len(EncodedEntries)

\* both entries of a group were left, each longer than the header's
\* blockLength and the two of different sizes
C30_Witness ==
    /\ pc = "iterated"
    /\ Len(stack) = MaxNum
    /\ EncodedSize(1) # EncodedSize(2)
    /\ \A i \in 1..MaxNum : stack[i].after - stack[i].entry.addr > stack[i].entry.block_length
    /\ res.val > Wire.dimension + MaxNum * lastAcc.groups[1].bl

----------------------------------------------------------------------------
(* Specification SpecRange: two input iterators of one cursor_range(c) of  *)
(* a group, and a caller that also reads entries through the cursor and    *)
(* rewrites the header's blockLength.  cur is the shared cursor, it the    *)
(* two iterators, size the blockLength the header held when the range was  *)
(* made, lastAcc the last operation with the cursor before and after it.   *)

Iterators == {1, 2}

Op(name, before, after) == [op |-> name, before |-> before, after |-> after]

InitRange ==
    /\ sid \in {"S1", "S2"}
    /\ buf \in Buffers(sid)
    /\ vw = GroupView(FirstGroup(buf, sid).val, EndOf(buf), Level(sid).groups[1])
    /\ cur = FirstGroup(buf, sid).ptr
    /\ it = NoIt
    /\ pc = "start"
    /\ res = NoResult
    /\ lastAcc = Op("none", Null, Null)
    /\ size = 0
    /\ stack = <<>>

\* r = g.cursor_range(c); i1 = i2 = r.begin()
MakeRange ==
    /\ pc = "start"
    /\ it' = [k \in Iterators |-> input_begin(cursor_range(buf, vw))]
    /\ size' = HeaderField(buf, vw, Wire.blockLengthOffset).val
    /\ lastAcc' = Op("range", cur, cur)
    /\ pc' = "ranged"
    /\ UNCHANGED <<buf, sid, res, cur, vw, stack>>

\* ++ik
IncrementIterator(k) ==
    /\ pc = "ranged"
    /\ it[k].index < HeaderField(buf, vw, Wire.numInGroupOffset).val
    /\ it' = [it EXCEPT ![k] = input_increment(it[k])]
    /\ lastAcc' = Op("increment", cur, cur)
    /\ UNCHANGED <<buf, sid, pc, size, res, cur, vw, stack>>

\* ik = ij
CopyIterator(j, k) ==
    /\ pc = "ranged"
    /\ j # k /\ it[j] # it[k]
    /\ it' = [it EXCEPT ![k] = it[j]]
    /\ lastAcc' = Op("copy", cur, cur)
    /\ UNCHANGED <<buf, sid, pc, size, res, cur, vw, stack>>

\* i1 == i2
CompareIterators ==
    /\ pc = "ranged"
    /\ res' = [kind |-> "equal", val |-> iterator_equal(it[1], it[2])]
    /\ lastAcc' = Op("compare", cur, cur)
    /\ UNCHANGED <<buf, sid, pc, size, cur, vw, stack, it>>

\* *i1 and *i2
DerefIterators ==
    /\ pc = "ranged"
    /\ res' = [kind |-> "deref", at |-> cur,
               entries |-> [k \in Iterators |-> input_deref(it[k], cur, vw)]]
    /\ lastAcc' = Op("deref", cur, cur)
    /\ UNCHANGED <<buf, sid, pc, size, cur, vw, stack, it>>

\* the caller reads the entry at the cursor through the cursor
ReadEntry ==
    /\ pc = "ranged"
    /\ \E sz \in {LevelSizeBytes(buf, input_deref(it[1], cur, vw))} :
          /\ sz.ok
          /\ cur + sz.val <= EndOf(buf)
          /\ sz.val > 0
          /\ cur' = cur + sz.val
          /\ lastAcc' = Op("read", cur, cur + sz.val)
    /\ UNCHANGED <<buf, sid, pc, size, res, vw, stack, it>>

\* the caller stores another blockLength in the group's header
WriteBlockLength ==
    /\ pc = "ranged"
    /\ HeaderField(buf, vw, Wire.blockLengthOffset).val = size
    /\ buf' = set_value(buf, vw, Wire.blockLengthOffset, size + 1, Wire.word).buf
    /\ lastAcc' = Op("write", cur, cur)
    /\ UNCHANGED <<sid, pc, size, res, cur, vw, stack, it>>

NextRange ==
    \/ MakeRange
    \/ \E k \in Iterators : IncrementIterator(k)
    \/ \E j \in Iterators, k \in Iterators : CopyIterator(j, k)
    \/ CompareIterators
    \/ DerefIterators
    \/ ReadEntry
    \/ WriteBlockLength

SpecRange == InitRange /\ [][NextRange]_vars

\* C31: incrementing, copying or comparing a cursor-range input iterator
\* never changes the shared cursor's pointer; every dereference yields an
\* entry whose address is the cursor's pointer at the moment of the
\* dereference and whose block_length is the header's blockLength captured
\* when the range was created, so two iterators of one range dereferenced at
\* the same moment yield the same entry whatever their indexes.
C31_IteratorLeavesCursor ==
    /\ [][lastAcc'.op \in {"increment", "copy", "compare"} => cur' = cur]_vars
    /\ [](res.kind = "deref" =>
            \A k \in Iterators :
               /\ res.entries[k].addr = res.at
               /\ res.entries[k].block_length = size
               /\ res.entries[k] = res.entries[1])

\* two iterators with different indexes were dereferenced after the cursor
\* had moved and the header's blockLength had been rewritten
C31_Witness ==
    /\ res.kind = "deref"
    /\ it[1].index # it[2].index
    /\ res.at > vw.addr + Wire.dimension
    /\ HeaderField(buf, vw, Wire.blockLengthOffset).val # size
    /\ size > 0

----------------------------------------------------------------------------
(* detail::byteswap in each of the forms the header can select.  A value   *)
(* is its base-256 digits, most significant first.                         *)

\* v & mask, for a mask that keeps the k-th byte counted from the least
\* significant one
MaskByte(digits, k) ==
    [i \in 1..Len(digits) |-> IF i = Len(digits) - k THEN digits[i] ELSE 0]

\* v << 8 * m for m > 0 and v >> 8 * -m for m < 0, in the width of v
ShiftBytes(digits, m) ==
    [i \in 1..Len(digits) |->
        IF i + m >= 1 /\ i + m <= Len(digits) THEN digits[i + m] ELSE 0]

\* a | b of values that have no non-zero byte in common
OrBytes(a, b) == [i \in 1..Len(a) |-> IF a[i] # 0 THEN a[i] ELSE b[i]]

\* the shift-and-mask byteswap of the fallback branch: byte k goes
\* Len - 1 - 2k bytes to the left
RECURSIVE PortableTerms(_, _)
PortableTerms(digits, k) ==
    IF k = Len(digits) THEN [i \in 1..Len(digits) |-> 0]
    ELSE OrBytes(ShiftBytes(MaskByte(digits, k), Len(digits) - 1 - 2 * k),
                 PortableTerms(digits, k + 1))

byteswap_portable(digits) == PortableTerms(digits, 0)

\* __builtin_bswap16/32/64, _byteswap_ushort/ulong/uint64
byteswap_intrinsic(digits) == Reverse(digits)

Variants == {"intrinsic", "bswap32", "portable"}

SwapSizes == {2, 4, 8}

\* the overload of detail::byteswap the preprocessor selects
byteswap_selected(variant, digits) ==
    CASE variant = "intrinsic" -> byteswap_intrinsic(digits)
      [] variant = "bswap32" ->
            IF Len(digits) = 2 THEN bswap32_shifted(digits) ELSE byteswap_intrinsic(digits)
      [] variant = "portable" -> byteswap_portable(digits)

InitByteswap ==
    /\ sid \in Variants
    /\ \E n \in SwapSizes : lastAcc \in ValuesOf(n)
    /\ pc = "start"
    /\ res = NoResult
    /\ buf = <<>>
    /\ vw = NoView
    /\ stack = <<>>
    /\ it = NoIt
    /\ cur = Null
    /\ size = 0

\* r = byteswap(v)
Byteswap ==
    /\ pc = "start"
    /\ res' = [kind |-> "byteswap", once |-> byteswap_selected(sid, lastAcc), twice |-> <<>>]
    /\ pc' = "swapped"
    /\ UNCHANGED <<buf, sid, size, cur, vw, lastAcc, stack, it>>

\* byteswap(r)
ByteswapAgain ==
    /\ pc = "swapped"
    /\ res' = [res EXCEPT !.twice = byteswap_selected(sid, res.once)]
    /\ pc' = "restored"
    /\ UNCHANGED <<buf, sid, size, cur, vw, lastAcc, stack, it>>

NextByteswap == Byteswap \/ ByteswapAgain

SpecByteswap == InitByteswap /\ [][NextByteswap]_vars

\* C32: every byteswap implementation the header can select for 16-, 32- and
\* 64-bit unsigned values (the intrinsics, the 16-bit variant built on
\* __builtin_bswap32, the shift-and-mask fallback) returns the input with its
\* bytes in reverse order for every input, so that all variants agree and
\* byteswap(byteswap(v)) = v.
C32_ByteswapReverses ==
    /\ pc \in {"swapped", "restored"} =>
          /\ res.once = Reverse(lastAcc)
          /\ \A variant \in Variants : byteswap_selected(variant, lastAcc) = res.once
    /\ pc = "restored" => res.twice = lastAcc

----------------------------------------------------------------------------
(* detail::bitset_base<T>.  A value is the set of the positions of its set *)
(* bits.  The operands 1 << n and b << n are computed in int (the literal  *)
(* and the promoted bool are ints); an int is held as the set of bits of   *)
(* its conversion to a 64-bit unsigned value, which repeats the sign bit   *)
(* in every higher position, and the result of an expression is cut to the *)
(* width of T when it is stored or compared.  A shift by the width of int  *)
(* or more is undefined: the build may use the count modulo the width, or  *)
(* yield 0.                                                                *)

Widths == {8, 16, 32, 64}

\* the width of int: 4 bytes
IntBits == 8 * 4

AllBits == 0..(2 * IntBits - 1)

ShiftOutcomes == {"modulo", "zero"}

\* the int x << n for x = 1, n below the width of int
ShiftedOne(n) == IF n = IntBits - 1 THEN {k \in AllBits : k >= n} ELSE {n}

\* 1 << n
OneShifted(n, outcome) ==
    IF n < IntBits THEN ShiftedOne(n)
    ELSE IF outcome = "modulo" THEN ShiftedOne(n % IntBits)
    ELSE {}

\* ~x of an int
Complement(x) == AllBits \ x

\* conversion to T of width w
ToWidth(x, w) == {k \in x : k < w}

\* bitset_base::operator()(get_bit_tag, n): bits & (1 << n), as bool
get_bit(bits, n, outcome) == (bits \cap OneShifted(n, outcome)) # {}

\* bitset_base::operator()(set_bit_tag, n, b): bits = (bits & ~(1 << n)) | (b << n)
set_bit(bits, n, b, w, outcome) ==
    ToWidth((bits \cap Complement(OneShifted(n, outcome)))
            \cup (IF b THEN OneShifted(n, outcome) ELSE {}), w)

\* the positions the calls are made with, and the values they are made on
SampleIndexes == {0, 1, 7, 8, 15, 16, 30, 31, 32, 33, 40, 62, 63}

BitIndexes(w) == {n \in SampleIndexes : n < w}

BitValues(w) ==
    {{}, 0..(w - 1)}
    \cup {{n} : n \in BitIndexes(w)}
    \cup {(0..(w - 1)) \ {n} : n \in BitIndexes(w)}

InitBitset ==
    /\ sid \in Widths
    /\ vw \in BitValues(sid)
    /\ pc = "start"
    /\ res = NoResult
    /\ lastAcc = NoLast
    /\ buf = <<>>
    /\ stack = <<>>
    /\ it = NoIt
    /\ cur = Null
    /\ size = 0

\* bits(set_bit_tag{}, n, b)
SetBit(n, b) ==
    /\ pc = "start"
    /\ n < sid
    /\ \E outcome \in ShiftOutcomes :
          vw' = set_bit(vw, n, b, sid, outcome)
    /\ lastAcc' = [kind |-> "set_bit", n |-> n, b |-> b, before |-> vw]
    /\ pc' = "set"
    /\ UNCHANGED <<buf, sid, size, res, cur, stack, it>>

\* bits(get_bit_tag{}, n)
GetBit(n) ==
    /\ pc \in {"start", "set"}
    /\ n < sid
    /\ \E outcome \in ShiftOutcomes :
          res' = [kind |-> "get_bit", n |-> n, val |-> get_bit(vw, n, outcome)]
    /\ pc' = "got"
    /\ UNCHANGED <<buf, sid, size, cur, vw, lastAcc, stack, it>>

NextBitset ==
    \/ \E n \in SampleIndexes, b \in BOOLEAN : SetBit(n, b)
    \/ \E n \in SampleIndexes : GetBit(n)

SpecBitset == InitBitset /\ [][NextBitset]_vars

\* C33: for a bitset over an unsigned type of width w (8, 16, 32 or 64) and
\* every bit index n < w, set_bit(n, b) changes bit n to b and leaves every
\* other bit unchanged, and get_bit(n) returns true exactly when bit n is
\* set, independently of the other bits.
C33_BitsIndependent ==
    /\ pc \in {"set", "got"} /\ lastAcc.kind = "set_bit" =>
          vw = (lastAcc.before \ {lastAcc.n}) \cup (IF lastAcc.b THEN {lastAcc.n} ELSE {})
    /\ res.kind = "get_bit" => (res.val <=> res.n \in vw)

----------------------------------------------------------------------------
(* Specification SpecHeader: the operations of a message and of its first  *)
(* group that go through operator()(get_header_tag), with size checks      *)
(* enabled.  The message view is made from the buffer's address and a size *)
(* (or is the null view); the group view is the one the message's accessor *)
(* returns, {level + blockLength, end}.  lastAcc holds the last call: the   *)
(* view it was made on, the header size and whether the hook was called.   *)

MessageOps == {"get_header", "get_level", "get_block_length"}

GroupOps == {"get_header", "size", "begin", "end", "size_bytes"}

\* SBEPP_SIZE_CHECK of operator()(get_header_tag)
header_hook(view, hsize) == assertion_failed(SizeCheck(view.addr, view.end, 0, hsize))

\* the header fields an operation reads from the composite get_header returned
FieldsRead(op) ==
    CASE op \in {"get_header", "get_level"} -> {}
      [] op \in {"get_block_length", "begin"} -> {Wire.blockLengthOffset}
      [] op = "size" -> {Wire.numInGroupOffset}
      [] op \in {"end", "size_bytes"} -> {Wire.blockLengthOffset, Wire.numInGroupOffset}

\* an operation that calls (*this)(get_header_tag{}) and then reads fields of
\* the header with get_value: whether the hook is called
through_header(op, view, hsize) ==
    \/ header_hook(view, hsize)
    \/ \E off \in FieldsRead(op) :
          assertion_failed(SizeCheck(view.addr, view.end, off, Wire.word))

InitHeader ==
    /\ sid \in {"S1", "S2"}
    /\ buf \in Buffers(sid)
    /\ \E n \in 0..Len(buf) :
          /\ size = n
          /\ vw \in {EntryView(Base, Base + n, sid, 0), EntryView(Null, Null, sid, 0)}
    /\ pc = "start"
    /\ lastAcc = NoLast
    /\ res = NoResult
    /\ stack = <<>>
    /\ it = NoIt
    /\ cur = Null

HeaderCall(op, view, hsize) ==
    [kind |-> "header", op |-> op, view |-> view, hsize |-> hsize,
     hook |-> through_header(op, view, hsize)]

\* an operation on the message view
MessageOp(op) ==
    /\ pc = "start"
    /\ lastAcc' = HeaderCall(op, vw, Wire.messageHeader)
    /\ pc' = "called"
    /\ UNCHANGED <<buf, sid, size, res, cur, vw, stack, it>>

\* g = the message's first group (get_first_dynamic_field_view: get_level and
\* get_block_length of the message returned), then an operation on g
GroupOp(op) ==
    /\ pc = "start"
    /\ ~through_header("get_level", vw, Wire.messageHeader)
    /\ ~through_header("get_block_length", vw, Wire.messageHeader)
    /\ lastAcc' = HeaderCall(op, GroupView(LevelEnd(buf, vw).val, vw.end,
                                           Level(sid).groups[1]), Wire.dimension)
    /\ pc' = "called"
    /\ UNCHANGED <<buf, sid, size, res, cur, vw, stack, it>>

NextHeader ==
    \/ \E op \in MessageOps : MessageOp(op)
    \/ \E op \in GroupOps : GroupOp(op)

SpecHeader == InitHeader /\ [][NextHeader]_vars

\* the header composite does not fit in the view's [begin, end)
HeaderOutside(view, hsize) ==
    view.addr = Null \/ view.end - view.addr < hsize

\* C34: get_header on a message or group view always checks that the whole
\* header composite fits in [begin, end): with size checks enabled, a view
\* whose buffer is shorter than the header size, or whose address is null,
\* reports a contract violation on get_header and on every operation that
\* goes through the header (size(), begin(), end(), size_bytes, block length,
\* level start).
C34_HeaderChecked ==
    lastAcc.kind = "header" =>
       (HeaderOutside(lastAcc.view, lastAcc.hsize) => lastAcc.hook)

----------------------------------------------------------------------------
(* The ranges of the built-in optional integer and char types: the MIN,    *)
(* MAX and NULL arguments of SBEPP_BUILT_IN_IMPL, optional_base::in_range, *)
(* and the value constructor.                                              *)

LastDigit(d, x) == [d EXCEPT ![Len(d)] = x]

\* the MIN argument of SBEPP_BUILT_IN_IMPL
min_value(t) ==
    CASE Prim(t.prim).kind = "char" -> <<32>>
      [] Prim(t.prim).kind = "signed" ->
            LastDigit(Digits(t, Pow256(1) \div 2, 0),
                      IF Prim(t.prim).bytes = 1 THEN Pow256(1) \div 2 + 1 ELSE 1)
      [] Prim(t.prim).kind = "unsigned" -> Digits(t, 0, 0)

\* the MAX argument of SBEPP_BUILT_IN_IMPL
max_value(t) ==
    CASE Prim(t.prim).kind = "char" -> <<126>>
      [] Prim(t.prim).kind = "signed" -> Digits(t, Pow256(1) \div 2 - 1, Pow256(1) - 1)
      [] Prim(t.prim).kind = "unsigned" ->
            LastDigit(Digits(t, Pow256(1) - 1, Pow256(1) - 1), Pow256(1) - 2)

\* a <= b of value_type
ValueLessEq(t, a, b) == ValueLess(t, a, b) \/ ValueEq(t, a, b)

\* optional_base::in_range: Derived::min_value() <= val && val <= Derived::max_value();
\* NAME_t has both members, with the same MIN and MAX
in_range(t, v) == Wf(ValueLessEq(t, min_value(t), v) /\ ValueLessEq(t, v, max_value(t)))

\* optional_base::value
optional_get_value(t, v) == Wf(v)

IntegerOptTypes == {t \in OptTypes : t.builtin /\ ~IsFloat(t)}

\* values of the type: the samples of ValueSamples and the ends of the range
RangeSamples(t) == ValueSamples(t) \cup {min_value(t), max_value(t), null_value(t)}

InitInRange ==
    /\ sid \in IntegerOptTypes
    /\ pc = "start"
    /\ buf = <<>>
    /\ vw = NoView
    /\ lastAcc = NoLast
    /\ res = NoResult
    /\ stack = <<>>
    /\ it = NoIt
    /\ cur = Null
    /\ size = 0

\* T x{v};
RangeConstruct(v) ==
    /\ pc = "start"
    /\ v \in RangeSamples(sid)
    /\ it' = Optional("value", optional_value(sid, v))
    /\ lastAcc' = [kind |-> "constructed", from |-> v]
    /\ pc' = "made"
    /\ UNCHANGED <<buf, sid, size, res, cur, vw, stack>>

\* x.value()
GetOptionalValue ==
    /\ pc = "made"
    /\ res' = [kind |-> "value", wf |-> optional_get_value(sid, it.val).wf,
               val |-> optional_get_value(sid, it.val).val]
    /\ pc' = "asked"
    /\ UNCHANGED <<buf, sid, size, cur, vw, lastAcc, stack, it>>

\* x.in_range() && !x.has_value()
InRangeAndNull ==
    /\ pc = "made"
    /\ res' = [kind |-> "in_range_and_null",
               wf |-> in_range(sid, it.val).wf /\ has_value(sid, it.val).wf,
               in_range |-> in_range(sid, it.val).val,
               has_value |-> has_value(sid, it.val).val]
    /\ pc' = IF in_range(sid, it.val).wf /\ has_value(sid, it.val).wf
             THEN "asked" ELSE "ill-formed"
    /\ UNCHANGED <<buf, sid, size, cur, vw, lastAcc, stack, it>>

\* x.in_range()
AskInRange ==
    /\ pc = "made"
    /\ res' = [kind |-> "in_range", wf |-> in_range(sid, it.val).wf,
               val |-> in_range(sid, it.val).val]
    /\ pc' = "asked"
    /\ UNCHANGED <<buf, sid, size, cur, vw, lastAcc, stack, it>>

AllSamples == UNION {RangeSamples(t) : t \in IntegerOptTypes}

NextInRange ==
    \/ \E v \in AllSamples : RangeConstruct(v)
    \/ GetOptionalValue
    \/ AskInRange
    \/ InRangeAndNull

SpecInRange == InitInRange /\ [][NextInRange]_vars

\* the constants of the type: the null value is outside [min, max], min <= max
NullOutsideRange(t) ==
    /\ ValueLessEq(t, min_value(t), max_value(t))
    /\ ~(ValueLessEq(t, min_value(t), null_value(t))
         /\ ValueLessEq(t, null_value(t), max_value(t)))

\* C35: for every built-in optional integer and char type, null_value() lies
\* outside [min_value(), max_value()] and min_value() <= max_value(), so that
\* no stored value satisfies both in_range() and !has_value(); construction
\* never clamps or rejects: a wrapper constructed from any value v returns v
\* from value(), whether or not v is in range.
C35_NullOutsideRange ==
    /\ NullOutsideRange(sid)
    /\ pc # "ill-formed"
    /\ res.kind = "value" => res.wf /\ res.val = lastAcc.from
    /\ res.kind = "in_range_and_null" => ~(res.in_range /\ ~res.has_value)

----------------------------------------------------------------------------
(* Specification SpecLength: push_back, resize(count, default_init) and    *)
(* insert at the end, on dynamic arrays whose size is near zero or near    *)
(* the largest value of the length type, in a view with room for one       *)
(* element more than that value.                                           *)

\* the largest value of size_type
LengthMax == Pow256(Wire.length) - 1

\* dynamic_array_ref::max_size: sbe_size_type::max_value(), the MAX argument of
\* SBEPP_BUILT_IN_IMPL for the unsigned type of Wire.length bytes
max_size == LengthMax - 1

\* the sizes the arrays start with and are resized to
LengthSamples == {0, 1, LengthMax - 1, LengthMax}

LengthBuffer(k) ==
    [i \in 1..(Wire.length + LengthMax + 1 + Guard) |->
        IF i <= Wire.length THEN U16(k)[i]
        ELSE IF i <= Wire.length + k THEN 64 + (i % 8)
        ELSE IF i <= Wire.length + LengthMax + 1 THEN 128
        ELSE 255]

InitLength ==
    /\ sid = "array"
    /\ \E k \in LengthSamples : buf = LengthBuffer(k)
    /\ vw = DataView(Base, Base + Wire.length + LengthMax + 1)
    /\ pc = "start"
    /\ lastAcc = NoCall
    /\ stack = <<>>
    /\ res = NoResult
    /\ it = NoIt
    /\ cur = Null
    /\ size = 0

\* insert(end(), v)
InsertAtEnd(v) ==
    /\ Ready
    /\ ArrayStep("insert", Size, 0, v, <<>>, insert(buf, vw, Begin + Size, v))

NextLength ==
    \/ PushBack(Written)
    \/ \E n \in LengthSamples : ResizeDefaultInit(n)
    \/ InsertAtEnd(Written)

SpecLength == InitLength /\ [][NextLength]_vars

\* size() before the last call
SizeBefore == get_primitive(lastAcc.pre, ByteOrder, vw.addr, Wire.length)

\* C36: push_back(v) on a dynamic array holding k elements, in a buffer with
\* room for one more, yields size() == k + 1 with element k equal to v and
\* elements [0, k) unchanged, for every k representable in the length type: the
\* length prefix never wraps around to a smaller value, and size() never
\* exceeds max_size() after resize, push_back or insert.
C36_PushBackLength ==
    /\ lastAcc.kind = "push_back" =>
          /\ lastAcc.ok
          /\ Size = SizeBefore + 1
          /\ Peek(buf, Begin + SizeBefore) = lastAcc.val
          /\ \A i \in 0..(SizeBefore - 1) :
                Peek(buf, Begin + i) = Peek(lastAcc.pre, Begin + i)
    /\ lastAcc.kind \in {"push_back", "insert"} => Size >= SizeBefore
    /\ lastAcc.kind \in {"push_back", "insert", "resize_default_init"} /\ lastAcc.ok =>
          Size <= max_size

----------------------------------------------------------------------------
(* Specification SpecGroupResize: resize(count) and clear() on a flat or a *)
(* nested group with the dimension Dim8, then size(), end() - begin() and  *)
(* size_bytes.  The group holds n entries of blockLength bytes; resize     *)
(* changes neither.                                                        *)

\* Dimension::numInGroup(count) on the header view
set_num_in_group(b, g, dim, count) ==
    set_value(b, g, dim.numInGroupOffset, count, dim.numInGroupBytes)

\* flat_group_base::resize and nested_group_base::resize:
\* (*this)(get_header_tag{}).numInGroup(count)
group_resize(b, g, dim, count) ==
    IF flat_get_header(b, g, dim) THEN set_num_in_group(b, g, dim, count)
    ELSE [ok |-> FALSE, buf |-> b]

\* flat_group_base::clear and nested_group_base::clear: resize(0)
group_clear(b, g, dim) == group_resize(b, g, dim, 0)

GroupKinds == {"flat", "nested"}

InitGroupResize ==
    /\ sid \in GroupKinds
    /\ buf \in {IterBuffer(bl, n) : bl \in 0..MaxBlock, n \in IterSizes}
    /\ vw = IterGroup(buf)
    /\ pc = "start"
    /\ it = NoIt
    /\ res = NoResult
    /\ size = 0
    /\ lastAcc = NoCall
    /\ cur = Null
    /\ stack = <<>>

\* the call `kind` with argument count has produced r
Resized(kind, count, r) ==
    /\ buf' = r.buf
    /\ lastAcc' = [NoCall EXCEPT !.kind = kind, !.pre = buf, !.ok = r.ok, !.a = count]
    /\ pc' = IF r.ok THEN "resized" ELSE "fault"
    /\ UNCHANGED <<sid, size, res, cur, vw, stack, it>>

\* g.resize(count)
GroupResize(count) ==
    /\ pc = "start"
    /\ \E r \in {group_resize(buf, vw, Dim8, count)} : Resized("resize", count, r)

\* g.clear()
GroupClear ==
    /\ pc = "start"
    /\ \E r \in {group_clear(buf, vw, Dim8)} : Resized("clear", 0, r)

\* g.size()
GroupSize ==
    /\ pc = "resized"
    /\ res' = [kind |-> "size", ok |-> flat_get_header(buf, vw, Dim8),
               val |-> flat_size(buf, vw, Dim8)]
    /\ pc' = "asked"
    /\ UNCHANGED <<buf, sid, size, cur, vw, lastAcc, stack, it>>

\* g.end() - g.begin() of a flat group
GroupDistance ==
    /\ pc = "resized" /\ sid = "flat"
    /\ res' = [kind |-> "distance", ok |-> flat_get_header(buf, vw, Dim8),
               val |-> ra_minus(Dim8, ra_end(buf, vw, Dim8), flat_begin(buf, vw, Dim8))]
    /\ pc' = "asked"
    /\ UNCHANGED <<buf, sid, size, cur, vw, lastAcc, stack, it>>

\* sbepp::size_bytes(g) of a flat group
GroupSizeBytes(outcome) ==
    /\ pc = "resized" /\ sid = "flat"
    /\ \E s \in {flat_size_bytes(buf, vw, Dim8, outcome)} :
          res' = [kind |-> "size_bytes", ok |-> s.ok, val |-> s.val]
    /\ pc' = "asked"
    /\ UNCHANGED <<buf, sid, size, cur, vw, lastAcc, stack, it>>

NextGroupResize ==
    \/ \E count \in IterSizes : GroupResize(count)
    \/ GroupClear
    \/ GroupSize
    \/ GroupDistance
    \/ \E outcome \in Outcomes : GroupSizeBytes(outcome)

SpecGroupResize == InitGroupResize /\ [][NextGroupResize]_vars

\* the positions of the numInGroup field in the buffer
NumInGroupBytes(g, dim) ==
    {g.addr - Base + dim.numInGroupOffset + k : k \in 1..dim.numInGroupBytes}

\* only the numInGroup field differs from the buffer before the call
OnlyNumInGroupWritten ==
    /\ Len(buf) = Len(lastAcc.pre)
    /\ \A i \in 1..Len(buf) :
          i \notin NumInGroupBytes(vw, Dim8) => buf[i] = lastAcc.pre[i]

\* C37: resize(count) and clear() on a flat or nested group write only the
\* numInGroup field of the dimension header: blockLength, the other header
\* fields and every entry byte are left unchanged, and afterwards
\* size() == count, end() - begin() == count for a flat group, and size_bytes
\* of a flat group is header size + count * blockLength.
C37_ResizeWritesNumInGroup ==
    lastAcc.kind \in {"resize", "clear"} =>
       /\ lastAcc.ok
       /\ OnlyNumInGroupWritten
       /\ res.kind = "size" => res.ok /\ res.val = lastAcc.a
       /\ res.kind = "distance" => res.ok /\ res.val = lastAcc.a
       /\ res.kind = "size_bytes" =>
             /\ res.ok
             /\ res.val = Wide(Dim8.size
                               + lastAcc.a * flat_block_length(lastAcc.pre, vw, Dim8))

----------------------------------------------------------------------------
(* Specification SpecInsertPaths: insert(pos, first, last) on the same     *)
(* array through insert_impl for input iterators and through insert_impl   *)
(* for forward iterators.  The arrays are those of SpecArray and those of  *)
(* SpecLength that are nearly full; into the latter the range is inserted  *)
(* at end().                                                               *)

\* the loop of insert_impl(pos, first, last, input_iterator_tag)
RECURSIVE insert_each(_, _, _, _)
insert_each(b, d, out, src) ==
    IF src = <<>> THEN Arr(TRUE, b)
    ELSE With(insert(b, d, out, Head(src)), LAMBDA r :
           IF r.ok THEN insert_each(r.buf, d, out + 1, Tail(src)) ELSE r)

\* insert(pos, first, last) for iterators that are input iterators only
insert_range_single_pass(b, d, pos, src) ==
    With(array_begin(b, d), LAMBDA bg :
    With(array_end(b, d), LAMBDA en :
      IF bg.ok /\ en.ok /\ pos >= bg.val /\ pos <= en.val
      THEN insert_each(b, d, pos, src)
      ELSE Arr(FALSE, b)))

\* the largest number of elements inserted by one call
MaxInput == 2

InitInsertPaths ==
    /\ sid = "array"
    /\ \/ \E c \in 0..MaxElems : \E k \in 0..c :
             /\ buf = ArrayBuffer(c, k)
             /\ vw = DataView(Base, Base + Wire.length + c)
       \/ \E k \in {LengthMax - 1, LengthMax} :
             /\ buf = LengthBuffer(k)
             /\ vw = DataView(Base, Base + Wire.length + LengthMax + 1)
    /\ pc = "start"
    /\ lastAcc = NoCall
    /\ stack = <<>>
    /\ res = NoResult
    /\ it = NoIt
    /\ cur = Null
    /\ size = 0

\* the arguments of the call: pos is end() - back, the range holds n elements
ChooseRange(back, n) ==
    /\ pc = "start"
    /\ back <= Size
    /\ Size > MaxElems => back = 0
    /\ lastAcc' = [NoCall EXCEPT !.kind = "insert_range", !.a = Begin + Size - back,
                                 !.b = n, !.src = Source(n)]
    /\ pc' = "called"
    /\ UNCHANGED <<buf, sid, size, res, cur, vw, stack, it>>

\* the outcome of a path: the buffer afterwards and the iterator returned
Outcome(kind, r, pos) ==
    [kind |-> kind, ok |-> r.ok, buf |-> r.buf, ret |-> IF r.ok THEN pos ELSE Null]

ForwardPath ==
    /\ pc = "called" /\ it.kind = "none"
    /\ \E r \in {insert_range(buf, vw, lastAcc.a, lastAcc.src)} :
          it' = Outcome("forward", r, lastAcc.a)
    /\ UNCHANGED <<buf, sid, pc, size, res, cur, vw, lastAcc, stack>>

SinglePassPath ==
    /\ pc = "called" /\ res.kind = "none"
    /\ \E r \in {insert_range_single_pass(buf, vw, lastAcc.a, lastAcc.src)} :
          res' = Outcome("single", r, lastAcc.a)
    /\ UNCHANGED <<buf, sid, pc, size, cur, vw, lastAcc, stack, it>>

NextInsertPaths ==
    \/ \E back \in 0..MaxElems, n \in 0..MaxInput : ChooseRange(back, n)
    \/ ForwardPath
    \/ SinglePassPath

SpecInsertPaths == InitInsertPaths /\ [][NextInsertPaths]_vars

\* the elements after the range was inserted at pos
Inserted(b, d, pos, src) ==
    SubSeq(Elements(b, d), 1, pos - data_unchecked(d)) \o src
    \o SubSeq(Elements(b, d), pos - data_unchecked(d) + 1, Len(Elements(b, d)))

\* C38: the two implementations of range insertion into a dynamic array agree:
\* for every array content, position pos and input sequence,
\* insert(pos, first, last) through the single-pass path and through the
\* forward-iterator path produce the same size, the same element sequence (the
\* input elements in their order from pos on, the old tail after them) and the
\* same returned iterator; a call one path reports as a contract violation is
\* reported by the other.
C38_InsertPathsAgree ==
    (it.kind = "forward" /\ res.kind = "single") =>
       /\ it.ok = res.ok
       /\ it.ok =>
             /\ it.buf = res.buf
             /\ it.ret = res.ret /\ it.ret = lastAcc.a
             /\ Elements(it.buf, vw) = Inserted(buf, vw, lastAcc.a, lastAcc.src)
====
